---- MODULE Spec2Model ----
(***************************************************************************)
(* Allocation-point protocol of the MPS bindings (src/src/alloc.rs): the   *)
(* inline reserve/commit wrappers, their out-of-line engine calls (fill,   *)
(* trip), the engine's flip, and the client threads that drive them.       *)
(***************************************************************************)
EXTENDS Integers, Sequences, FiniteSets, TLC

\* ---------------------------------------------------------------- bounds
NumSegs == 2
MaxLive == 2
NumObjs == 4
\* Width of mps_res_t (a C int, 32 bits), scaled down to keep 2^ResBits a small integer.
ResBits == 16
\* Result codes range over -MaxCode..MaxCode and the two ends of mps_res_t.
MaxCode == 50
\* Length, in words, of the memory the formatted objects live in.
HeapWords == 9
\* Width of mps_word_t in the zone arithmetic of a scan (64 bits), scaled.
ZoneBits == 4
\* Object formats (and so pools) a program creates in one arena.
MaxFmts == 2
\* Collection cycles the engine completes in a run.
MaxCycles == 4
\* Depth of the trees bottom_up_tree is asked for.
MaxDepth == 2
\* Blocks an allocation point passes over while a tree is built.
MaxGaps == 2

\* ------------------------------------------------------------- constants
NULL == 0
MPS_RES_OK == 0
MPS_RES_FAIL == 1
MPS_RES_RESOURCE == 2
MPS_RES_MEMORY == 3
MPS_RES_LIMIT == 4
MPS_RES_UNIMPL == 5
MPS_RES_IO == 6
MPS_RES_COMMIT_LIMIT == 7
MPS_RES_PARAM == 8
\* Discriminant of MpsError::Unknown.
UNKNOWN_DISCRIMINANT == 47
\* enum TreeObject: the tags of its variants, in declaration order, and its
\* size in words (a tag word and two words of payload).
TagForwarding == 0
TagTree == 1
TagPadding == 2
TreeObjectWords == 3

\* ------------------------------------------------------- address space
\* Format alignments a pool can be created with (powers of two).
Aligns == {2, 4}
MaxAlign == CHOOSE a \in Aligns : \A b \in Aligns : b <= a
\* The engine hands out buffers segment by segment; segment s covers
\* [SegBase(s), SegLimit(s)).  Address 0 is the null pointer.
SegSize == 2 * MaxAlign
Segs == 1..NumSegs
SegBase(s) == s * SegSize
SegLimit(s) == SegBase(s) + SegSize
TopAddr == SegLimit(NumSegs)
\* Width of a machine word (usize), scaled to the modelled address space.
WordBits == CHOOSE w \in 1..16 : 2^w > TopAddr /\ 2^(w-1) <= TopAddr
WordMod == 2^WordBits
Addrs == 0..(WordMod - 1)
MemAddrs == SegBase(1)..(TopAddr - 1)
\* A size whose addition to any buffer address wraps around the word.
HugeSize == WordMod - MaxAlign
\* Sizes a client may pass: nothing, unaligned, aligned, wrapping.
Sizes == (0..MaxAlign) \cup {HugeSize}
\* Values a client writes into a block; 0 is uninitialised memory.
Vals == {1, 2}
FirstVal == CHOOSE v \in Vals : \A w \in Vals : v <= w
Uninit == CHOOSE v \in {0} : TRUE
PadMark == CHOOSE v \in {9} : TRUE
\* Threads; thread t drives allocation point t.
APs == {"ap1", "ap2"}
\* Result codes the engine's fill can come back with besides success.
FillCodes == {MPS_RES_MEMORY, -1}

\* ---------------------------------------------------------------- state
VARIABLES
  align,        \* alignment of the pool's object format
  init,         \* mps_ap_s.init, per allocation point
  alloc,        \* mps_ap_s.alloc
  limit,        \* mps_ap_s.limit (NULL when reset or trapped)
  base,         \* engine: base of the attached buffer (NULL when reset)
  poolLimit,    \* engine: limit of the attached buffer (NULL when reset)
  initAtFlip,   \* engine: init recorded by the last flip
  flipped,      \* engine: buffer is in flipped mode
  freeSegs,     \* engine: segments not yet handed out
  managed,      \* engine: addresses of detached buffers it manages
  aborted,      \* "no", or the engine call whose argument check ended the process
  mem,          \* memory contents
  pc,           \* per thread: "idle", or "commit" between commit's two steps
  carg,         \* per thread: arguments of the commit in progress
  live,         \* per thread: blocks handed out by reserve since the last commit
  wrote,        \* per thread: value last written into the reserved block
  committed,    \* per thread: addresses of the blocks whose commit returned true
  flipInLimbo,  \* per thread: a flip happened after reserve, before commit
  allAligned,   \* per thread: every size reserved so far was a positive multiple of align
  disciplined,  \* per thread: the client has followed reserve -> commit so far
  last,         \* the most recent wrapper call that returned
  heap,         \* formatted memory, word by word
  top,          \* engine: end of the formatted part of the heap
  objs,         \* engine: the objects it has laid out (address, size, kind, target)
  fmtcall,      \* the most recent format method call
  ss,           \* engine: its scan state mps_ss_s (_zs, _w, _ufs)
  sfs,          \* the ScanFixState and the locals of the scan method in progress
  slog,         \* what the scan call in progress has done so far
  arena,        \* engine: the arena, "live" or "destroyed"
  fmts,         \* per format: the engine's object and the Rust value that owns it
  pools,        \* per pool: the engine's object, its class, the Rust value
  elog,         \* engine: its create and destroy calls, in order
  lcall,        \* the most recent call of the lifecycle interface
  trace,        \* engine: "none", or "running" while a collection cycle is under way
  cycles,       \* engine: collection cycles completed
  colcall,      \* the collection call of the client: in progress, or the last returned
  kids,         \* per tree node address: its children (left, right), NULL for None
  tnext,        \* allocation point of the tree builder: the next free address
  bt,           \* bottom_up_tree: requested depth, call stack, returned node
  gc,           \* engine: the moving collection in progress
  nest,         \* a scan that delegates to a sub-scan: engine scan state, both fix states
  aps           \* per pool: the allocation point created from it, engine object and Rust value

apF == <<init, alloc, limit>>
engF == <<base, poolLimit, initAtFlip, flipped, freeSegs, managed>>
cliF == <<live, wrote, committed, flipInLimbo, allAligned, disciplined>>
scanF == <<ss, sfs, slog>>
gcF == <<heap, top, objs, fmtcall, scanF>>
lifeF == <<arena, fmts, pools, elog, lcall>>
colF == <<trace, cycles, colcall>>
treeF == <<kids, tnext, bt>>
moveF == <<gc>>
auxF == <<nest, aps>>
extF == <<lifeF, colF, treeF, moveF, auxF>>
vars == <<align, apF, engF, aborted, mem, pc, carg, cliF, last, gcF, extF>>

\* The formatted heap: addresses and sizes are counted in words, the alignment
\* of the tree format.
HeapBase == SegBase(1)
HeapLimit == HeapBase + HeapWords
HeapAddrs == HeapBase..(HeapLimit - 1)
\* Tree objects the heap has room for.
NumTreeObjects == HeapWords \div TreeObjectWords
\* The memory a moving collection copies objects to.
ToAddrs == HeapLimit..(HeapLimit + HeapWords - 1)
\* Addresses the engine relocates objects to.
NewAddrs == {HeapLimit, HeapLimit + TreeObjectWords}
NoFmtCall == [op |-> "none", addr |-> NULL, arg |-> NULL, ret |-> NULL, pre |-> NULL]
\* A word used as a set of bits is modelled by the set of the indices of its one bits.
NoBits == {}
NoScan == [pc |-> "idle", zs |-> 0, w |-> NoBits, ufs |-> NoBits, base |-> NULL,
           limit |-> NULL, left |-> NULL, right |-> NULL, ret |-> MPS_RES_OK]
NoLog == [should |-> {}, calls |-> <<>>, entry |-> NoBits, starts |-> {}]

NoCall == [op |-> "none", t |-> "ap1", size |-> 0, p |-> NULL, ok |-> FALSE,
           addr |-> NULL, err |-> "none", engine |-> FALSE, code |-> 0,
           preInit |-> NULL, preAlloc |-> NULL, preLimit |-> NULL, postAlloc |-> NULL,
           match |-> FALSE, nlive |-> 0, limbo |-> FALSE, val |-> Uninit]
NoArg == [p |-> NULL, size |-> 0, match |-> FALSE, nlive |-> 0, preInit |-> NULL,
          preAlloc |-> NULL, preLimit |-> NULL]

\* State after Pool::create_allocation_point: a reset buffer.
\* Formats a program creates; the pool built from format f is pool f.
FmtIds == 1..MaxFmts
NoFmt == [eng |-> "none", rust |-> "none", align |-> 0]
NoPool == [eng |-> "none", rust |-> "none", class |-> "none"]
NoAp == [eng |-> "none", rust |-> "none"]
NoLifeCall == [op |-> "none", id |-> 0, align |-> 0, code |-> MPS_RES_OK,
               ok |-> TRUE, err |-> "none"]

\* Where the tree nodes are allocated.
TreeBase == HeapBase
NoKids == <<NULL, NULL>>
NoBuild == [depth |-> 0, stack |-> <<>>, ret |-> NULL, returned |-> FALSE, gaps |-> 0]

NoGC == [phase |-> "idle", root |-> NULL, grey |-> {}, copies |-> {}, zs |-> 0, w |-> NoBits,
         pre |-> <<>>]

\* No delegating scan in progress.
NoNest == [pc |-> "idle", raw |-> [zs |-> 0, w |-> NoBits, ufs |-> NoBits],
           outer |-> [zs |-> 0, w |-> NoBits, ufs |-> NoBits],
           sub |-> [zs |-> 0, w |-> NoBits, ufs |-> NoBits],
           entry |-> NoBits, before |-> NoBits, inner |-> NoBits, after |-> NoBits,
           called |-> FALSE, subret |-> MPS_RES_OK, callret |-> MPS_RES_OK,
           ret |-> MPS_RES_OK]
NoColCall == [op |-> "none", pc |-> "idle", entry |-> 0, started |-> 0, code |-> MPS_RES_OK,
              ok |-> TRUE, err |-> "none"]

Init ==
  /\ align \in Aligns
  /\ init = [t \in APs |-> NULL]
  /\ alloc = [t \in APs |-> NULL]
  /\ limit = [t \in APs |-> NULL]
  /\ base = [t \in APs |-> NULL]
  /\ poolLimit = [t \in APs |-> NULL]
  /\ initAtFlip = [t \in APs |-> NULL]
  /\ flipped = [t \in APs |-> FALSE]
  /\ freeSegs = Segs
  /\ managed = {}
  /\ aborted = "no"
  /\ mem = [a \in MemAddrs |-> Uninit]
  /\ pc = [t \in APs |-> "idle"]
  /\ carg = [t \in APs |-> NoArg]
  /\ live = [t \in APs |-> <<>>]
  /\ wrote = [t \in APs |-> Uninit]
  /\ committed = [t \in APs |-> {}]
  /\ flipInLimbo = [t \in APs |-> FALSE]
  /\ allAligned = [t \in APs |-> TRUE]
  /\ disciplined = [t \in APs |-> TRUE]
  /\ last = NoCall
  /\ heap = [a \in HeapAddrs \cup ToAddrs |-> 0]
  /\ top = HeapBase
  /\ objs = {}
  /\ fmtcall = NoFmtCall
  /\ ss = [zs |-> 0, w |-> NoBits, ufs |-> NoBits]
  /\ sfs = NoScan
  /\ slog = NoLog
  /\ arena = "live"
  /\ fmts = [f \in FmtIds |-> NoFmt]
  /\ pools = [f \in FmtIds |-> NoPool]
  /\ elog = <<>>
  /\ lcall = NoLifeCall
  /\ trace = "none"
  /\ cycles = 0
  /\ colcall = NoColCall
  /\ kids = [a \in {} |-> NoKids]
  /\ tnext = TreeBase
  /\ bt = NoBuild
  /\ gc = NoGC
  /\ nest = NoNest
  /\ aps = [p \in FmtIds |-> NoAp]

\* ------------------------------------------------------ pure operators
\* Slips of wrapping_add: the size rounded up to the alignment before it is
\* added; an addition that is one too long.
AlignUpAdd(a, b) == (a + b + ((align - (b % align)) % align)) % WordMod
OffByOneAdd(a, b) == (a + b + 1) % WordMod
\* usize::wrapping_add
wrapping_add(a, b) == (a + b) % WordMod

\* A slip of the fast-path test: a null limit taken for no limit.
ReserveFits_NullUnbounded(a, next, lim) == next > a /\ (lim = NULL \/ next <= lim)
\* A slip of the fast-path test: the limit of the buffer not looked at.
ReserveFits_NoLimitTest(a, next, lim) == next > a
\* A slip of the fast-path test: a cursor that wrapped taken for one in the buffer.
ReserveFits_NoWrapTest(a, next, lim) == next <= lim
\* The fast-path test of reserve: the new cursor did not wrap and is in the buffer.
ReserveFits(a, next, lim) == next > a /\ next <= lim

\* A slip of the fast path: the old cursor handed out instead of init.
ReservedAddr_Cursor(i, a) == a
\* The address reserve's fast path hands out, given init and the old cursor.
ReservedAddr(i, a) == i

\* A slip of commit: init left as it was.
PublishedInit_Stale(i, a) == i
\* The value commit publishes in init, given init and the cursor.
PublishedInit(i, a) == a

\* Slips of commit's test: inverted; never taken; always taken.
CommitFast_Inverted(lim) == lim = NULL
CommitFast_Never(lim) == FALSE
CommitFast_Always(lim) == TRUE
\* The fast-path test of commit: the allocation point is not trapped.
CommitFast(lim) == lim # NULL

\* A slip of the conversion: a cast to a narrower type, the top bit lost.
AsU32_Narrow(code) == code % (2^(ResBits - 1))
\* A slip of the conversion: the sign dropped instead of the bits kept.
AsU32_Abs(code) == IF code < 0 THEN 0 - code ELSE code
\* `code as u32`
AsU32(code) == code % (2^ResBits)

\* A slip of from_code: the arms of MEMORY and RESOURCE exchanged.
from_code_Swapped(code) ==
  LET c == AsU32(code) IN
  CASE c = MPS_RES_OK -> "panic"
    [] c = MPS_RES_FAIL -> "Fail"
    [] c = MPS_RES_IO -> "Io"
    [] c = MPS_RES_LIMIT -> "Limit"
    [] c = MPS_RES_MEMORY -> "Resource"
    [] c = MPS_RES_RESOURCE -> "Memory"
    [] c = MPS_RES_UNIMPL -> "Unimplemented"
    [] c = MPS_RES_COMMIT_LIMIT -> "CommitLimit"
    [] c = MPS_RES_PARAM -> "InvalidParam"
    [] OTHER -> "Unknown"
\* A slip of from_code: the arm of PARAM left out.
from_code_NoParam(code) ==
  LET c == AsU32(code) IN
  CASE c = MPS_RES_OK -> "panic"
    [] c = MPS_RES_FAIL -> "Fail"
    [] c = MPS_RES_IO -> "Io"
    [] c = MPS_RES_LIMIT -> "Limit"
    [] c = MPS_RES_MEMORY -> "Memory"
    [] c = MPS_RES_RESOURCE -> "Resource"
    [] c = MPS_RES_UNIMPL -> "Unimplemented"
    [] c = MPS_RES_COMMIT_LIMIT -> "CommitLimit"
    [] OTHER -> "Unknown"
\* MpsError::from_code; assert_ne!(code, MPS_RES_OK) panics on the success code.
from_code(code) ==
  LET c == AsU32(code) IN
  CASE c = MPS_RES_OK -> "panic"
    [] c = MPS_RES_FAIL -> "Fail"
    [] c = MPS_RES_IO -> "Io"
    [] c = MPS_RES_LIMIT -> "Limit"
    [] c = MPS_RES_MEMORY -> "Memory"
    [] c = MPS_RES_RESOURCE -> "Resource"
    [] c = MPS_RES_UNIMPL -> "Unimplemented"
    [] c = MPS_RES_COMMIT_LIMIT -> "CommitLimit"
    [] c = MPS_RES_PARAM -> "InvalidParam"
    [] OTHER -> "Unknown"

\* handle_mps_res!: Ok(()) for the success code, else Err(from_code(res)).
handle_mps_res(res) ==
  IF AsU32(res) = MPS_RES_OK
  THEN [ok |-> TRUE, err |-> "none"]
  ELSE [ok |-> FALSE, err |-> from_code(res)]

\* The discriminants `#[repr(u32)] enum MpsError` gives its variants.
Discriminant(v) ==
  CASE v = "Fail" -> MPS_RES_FAIL
    [] v = "Io" -> MPS_RES_IO
    [] v = "Limit" -> MPS_RES_LIMIT
    [] v = "Memory" -> MPS_RES_MEMORY
    [] v = "Resource" -> MPS_RES_RESOURCE
    [] v = "Unimplemented" -> MPS_RES_UNIMPL
    [] v = "CommitLimit" -> MPS_RES_COMMIT_LIMIT
    [] v = "InvalidParam" -> MPS_RES_PARAM
    [] v = "Unknown" -> UNKNOWN_DISCRIMINANT

\* The match in AllocationPoint::fill on the engine's result code.
FillResult(code, res) ==
  IF code = 0
  THEN [ok |-> TRUE, addr |-> res, err |-> "none"]
  ELSE [ok |-> FALSE, addr |-> NULL, err |-> from_code(code)]

\* Slips of trip's conversion: the test inverted; the result dropped, either way.
TripResult_Inverted(b) == b = 0
TripResult_False(b) == FALSE
TripResult_True(b) == TRUE
\* AllocationPoint::trip turns the engine's mps_bool_t into a bool.
TripResult(b) == b # 0

\* ------------------------------------------------------ engine (MPS)
\* The engine's own address arithmetic.
AddrAdd(a, n) == (a + n) % WordMod
Attached(t) == poolLimit[t] # NULL
\* The part of a buffer the collector scans: up to init, or to the init
\* recorded at the flip while the buffer is flipped.
ScanLimit(t) == IF flipped[t] THEN initAtFlip[t] ELSE init[t]
Visible ==
  managed \cup UNION {IF Attached(t) THEN base[t]..(ScanLimit(t) - 1) ELSE {} : t \in APs}
Block(addr, size) == addr..(addr + size - 1)

\* The addresses mps_ap_fill can store in its out-parameter.
FillAddrs(t) == {NULL, init[t]} \cup {SegBase(s) : s \in freeSegs}

\* The checks mps_ap_fill makes on its arguments; a failed check ends the process.
FillChecks(t, size) == size > 0 /\ size % align = 0 /\ init[t] = alloc[t]

\* mps_ap_fill, its checks passed: code and res are what it returns.
mps_ap_fill(t, size, code, res) ==
  LET next == AddrAdd(alloc[t], size) IN
  IF Attached(t) /\ limit[t] = NULL /\ next > alloc[t] /\ next <= poolLimit[t]
  THEN \* the buffer was trapped: untrap it and retry the reserve in place
    /\ code = MPS_RES_OK
    /\ res = init[t]
    /\ alloc' = [alloc EXCEPT ![t] = next]
    /\ limit' = [limit EXCEPT ![t] = poolLimit[t]]
    /\ flipped' = [flipped EXCEPT ![t] = FALSE]
    /\ initAtFlip' = [initAtFlip EXCEPT ![t] = NULL]
    /\ UNCHANGED <<init, base, poolLimit, freeSegs, managed, mem>>
  ELSE \* detach the buffer (padding its unused tail), then ask the pool for memory
    /\ managed' = managed \cup (IF Attached(t) THEN base[t]..(poolLimit[t] - 1) ELSE {})
    /\ mem' = [a \in MemAddrs |->
                 IF Attached(t) /\ a = init[t] /\ init[t] < poolLimit[t]
                 THEN PadMark ELSE mem[a]]
    /\ flipped' = [flipped EXCEPT ![t] = FALSE]
    /\ initAtFlip' = [initAtFlip EXCEPT ![t] = NULL]
    /\ \/ /\ code \in FillCodes
          /\ size > SegSize \/ freeSegs = {}
          /\ res = NULL
          /\ init' = [init EXCEPT ![t] = NULL]
          /\ alloc' = [alloc EXCEPT ![t] = NULL]
          /\ limit' = [limit EXCEPT ![t] = NULL]
          /\ base' = [base EXCEPT ![t] = NULL]
          /\ poolLimit' = [poolLimit EXCEPT ![t] = NULL]
          /\ UNCHANGED freeSegs
       \/ /\ code = MPS_RES_OK
          /\ size <= SegSize
          /\ \E s \in freeSegs :
               /\ \A s2 \in freeSegs : s <= s2
               /\ res = SegBase(s)
               /\ base' = [base EXCEPT ![t] = SegBase(s)]
               /\ init' = [init EXCEPT ![t] = SegBase(s)]
               /\ alloc' = [alloc EXCEPT ![t] = SegBase(s) + size]
               /\ limit' = [limit EXCEPT ![t] = SegLimit(s)]
               /\ poolLimit' = [poolLimit EXCEPT ![t] = SegLimit(s)]
               /\ freeSegs' = freeSegs \ {s}

\* The checks mps_ap_trip makes; a failed check ends the process.
TripChecks(t, p, size) ==
  /\ size > 0 /\ size % align = 0
  /\ flipped[t]
  /\ init[t] = alloc[t]
  /\ AddrAdd(p, size) = init[t]
  /\ p >= base[t] /\ p < poolLimit[t]

\* mps_ap_trip, its checks passed: b is the mps_bool_t it returns.
mps_ap_trip(t, p, size, b) ==
  IF flipped[t] /\ init[t] # initAtFlip[t]
  THEN \* the flip came before commit published init: undo the allocation
    /\ b = 0
    /\ init' = [init EXCEPT ![t] = p]
    /\ alloc' = [alloc EXCEPT ![t] = p]
    /\ UNCHANGED <<limit, engF, mem>>
  ELSE
    /\ b = 1
    /\ UNCHANGED <<apF, engF, mem>>

\* A flip: the engine traps every attached buffer and records its init.
Flip ==
  /\ aborted = "no"
  /\ \E t \in APs : Attached(t)
  /\ initAtFlip' = [t \in APs |-> IF Attached(t) /\ ~flipped[t] THEN init[t] ELSE initAtFlip[t]]
  /\ limit' = [t \in APs |-> IF Attached(t) /\ ~flipped[t] THEN NULL ELSE limit[t]]
  /\ flipped' = [t \in APs |-> flipped[t] \/ Attached(t)]
  /\ flipInLimbo' = [t \in APs |-> flipInLimbo[t] \/ (live[t] # <<>> /\ pc[t] = "idle")]
  /\ UNCHANGED <<align, extF, gcF, init, alloc, base, poolLimit, freeSegs, managed, aborted, mem,
                 pc, carg, live, wrote, committed, allAligned, disciplined, last>>

\* ------------------------------------------------------ wrapper calls
\* What a returning reserve leaves in `last` and in the client's books.
ReserveReturn(t, size, r, engine, code) ==
  /\ last' = [op |-> "reserve", t |-> t, size |-> size, p |-> NULL, ok |-> r.ok,
              addr |-> r.addr, err |-> r.err, engine |-> engine, code |-> code,
              preInit |-> init[t], preAlloc |-> alloc[t], preLimit |-> limit[t],
              postAlloc |-> alloc'[t],
              match |-> FALSE, nlive |-> Len(live[t]), limbo |-> FALSE, val |-> Uninit]
  /\ live' = [live EXCEPT ![t] =
                IF r.ok THEN Append(@, [addr |-> r.addr, size |-> size]) ELSE @]
  /\ wrote' = [wrote EXCEPT ![t] = IF r.ok THEN Uninit ELSE @]
  /\ allAligned' = [allAligned EXCEPT ![t] = @ /\ size > 0 /\ size % align = 0]
  /\ disciplined' = [disciplined EXCEPT ![t] = @ /\ live[t] = <<>>]
  /\ UNCHANGED <<committed, flipInLimbo>>

\* AllocationPoint::fill
fill(t, size) ==
  IF FillChecks(t, size)
  THEN /\ UNCHANGED aborted
       /\ \E code \in {MPS_RES_OK} \cup FillCodes, res \in FillAddrs(t) :
            /\ mps_ap_fill(t, size, code, res)
            /\ ReserveReturn(t, size, FillResult(code, res), TRUE, code)
  ELSE /\ aborted' = "fill"
       /\ UNCHANGED <<apF, engF, mem, cliF, last>>

\* AllocationPoint::reserve
reserve(t, size) ==
  /\ aborted = "no"
  /\ pc[t] = "idle"
  /\ UNCHANGED <<align, extF, gcF, pc, carg>>
  /\ LET next == wrapping_add(alloc[t], size) IN
     IF ReserveFits(alloc[t], next, limit[t])
     THEN /\ alloc' = [alloc EXCEPT ![t] = next]
          /\ UNCHANGED <<init, limit, engF, aborted, mem>>
          /\ ReserveReturn(t, size,
                           [ok |-> TRUE, addr |-> ReservedAddr(init[t], alloc[t]),
                            err |-> "none"],
                           FALSE, MPS_RES_OK)
     ELSE fill(t, size)

\* What a returning commit leaves in `last` and in the client's books.
CommitReturn(t, b, engine) ==
  /\ last' = [op |-> "commit", t |-> t, size |-> carg[t].size, p |-> carg[t].p, ok |-> b,
              addr |-> NULL, err |-> "none", engine |-> engine, code |-> 0,
              preInit |-> carg[t].preInit, preAlloc |-> carg[t].preAlloc,
              preLimit |-> limit[t], postAlloc |-> alloc'[t],
              match |-> carg[t].match, nlive |-> carg[t].nlive,
              limbo |-> flipInLimbo[t], val |-> wrote[t]]
  /\ live' = [live EXCEPT ![t] = <<>>]
  /\ committed' = [committed EXCEPT ![t] =
                     IF b /\ carg[t].match /\ disciplined[t] /\ allAligned[t]
                     THEN @ \cup Block(carg[t].p, carg[t].size) ELSE @]
  /\ flipInLimbo' = [flipInLimbo EXCEPT ![t] = FALSE]
  /\ pc' = [pc EXCEPT ![t] = "idle"]
  /\ carg' = [carg EXCEPT ![t] = NoArg]
  /\ UNCHANGED <<wrote, allAligned, disciplined>>

\* AllocationPoint::trip
trip(t, p, size) ==
  IF TripChecks(t, p, size)
  THEN /\ UNCHANGED aborted
       /\ \E b \in {0, 1} :
            /\ mps_ap_trip(t, p, size, b)
            /\ CommitReturn(t, TripResult(b), TRUE)
  ELSE /\ aborted' = "trip"
       /\ UNCHANGED <<apF, engF, mem, pc, carg, cliF, last>>

\* AllocationPoint::commit, first step: publish init := alloc.
commit_publish(t, p, size) ==
  /\ aborted = "no"
  /\ pc[t] = "idle"
  /\ init' = [init EXCEPT ![t] = PublishedInit(init[t], alloc[t])]
  /\ pc' = [pc EXCEPT ![t] = "commit"]
  /\ carg' = [carg EXCEPT ![t] =
                [p |-> p, size |-> size,
                 match |-> live[t] = <<[addr |-> p, size |-> size]>>,
                 nlive |-> Len(live[t]), preInit |-> init[t], preAlloc |-> alloc[t],
                 preLimit |-> limit[t]]]
  /\ disciplined' = [disciplined EXCEPT ![t] =
                       @ /\ live[t] = <<[addr |-> p, size |-> size]>>]
  /\ UNCHANGED <<align, extF, gcF, alloc, limit, engF, aborted, mem, live, wrote, committed,
                 flipInLimbo, allAligned, last>>

\* A slip of commit: limit read before init is stored, and tested after.
commit_check_EarlyRead(t) ==
  /\ aborted = "no"
  /\ pc[t] = "commit"
  /\ UNCHANGED <<align, extF, gcF>>
  /\ IF CommitFast(carg[t].preLimit)
     THEN /\ UNCHANGED <<apF, engF, aborted, mem>>
          /\ CommitReturn(t, TRUE, FALSE)
     ELSE trip(t, carg[t].p, carg[t].size)
\* AllocationPoint::commit, second step: read limit, and trip when trapped.
commit_check(t) ==
  /\ aborted = "no"
  /\ pc[t] = "commit"
  /\ UNCHANGED <<align, extF, gcF>>
  /\ IF CommitFast(limit[t])
     THEN /\ UNCHANGED <<apF, engF, aborted, mem>>
          /\ CommitReturn(t, TRUE, FALSE)
     ELSE trip(t, carg[t].p, carg[t].size)

\* ------------------------------------------------------ clients
\* The client initialises the block it reserved last.
Initialize(t, v) ==
  /\ aborted = "no"
  /\ pc[t] = "idle"
  /\ live[t] # <<>>
  /\ wrote[t] = Uninit
  /\ LET b == live[t][Len(live[t])] IN
       mem' = [mem EXCEPT ![b.addr] = v]
  /\ wrote' = [wrote EXCEPT ![t] = v]
  /\ UNCHANGED <<align, extF, gcF, apF, engF, aborted, pc, carg, live, committed, flipInLimbo,
                 allAligned, disciplined, last>>

\* The thread of the single-threaded specifications.
Mutator == CHOOSE t \in APs : TRUE

\* Sizes a client that keeps reserve's precondition passes.
AlignedSizes == {n \in Sizes : n > 0 /\ n % align = 0}

\* -- a client that keeps the protocol: reserve, initialise, commit that block
ClientReserve ==
  \E size \in AlignedSizes : live[Mutator] = <<>> /\ reserve(Mutator, size)
ClientInitialize == \E v \in {FirstVal} : Initialize(Mutator, v)
ClientCommit ==
  /\ Len(live[Mutator]) = 1
  /\ wrote[Mutator] # Uninit
  /\ commit_publish(Mutator, live[Mutator][1].addr, live[Mutator][1].size)
ClientCommitCheck == commit_check(Mutator)

Next ==
  \/ ClientReserve
  \/ ClientInitialize
  \/ ClientCommit
  \/ ClientCommitCheck
  \/ Flip

Spec == Init /\ [][Next]_vars

\* -- a client that breaks the preconditions of the unsafe calls: any size, a
\* reserve on top of a reservation, a commit of something it does not hold
WrongCommits(t) ==
  {[addr |-> alloc[t], size |-> align]}
    \cup {[addr |-> live[t][i].addr, size |-> live[t][i].size + align] : i \in 1..Len(live[t])}
AnyReserve ==
  \E size \in {0, 1, align, HugeSize} :
     Len(live[Mutator]) < MaxLive /\ reserve(Mutator, size)
AnyCommit ==
  \E b \in {live[Mutator][i] : i \in 1..Len(live[Mutator])} \cup WrongCommits(Mutator) :
     commit_publish(Mutator, b.addr, b.size)
AnyCommitCheck == commit_check(Mutator)

NextMisuse ==
  \/ AnyReserve
  \/ AnyCommit
  \/ AnyCommitCheck
  \/ Flip

SpecMisuse == Init /\ [][NextMisuse]_vars

\* -- one thread per allocation point, each keeping the protocol, no client lock
MTReserve ==
  \E t \in APs, size \in {align, MaxAlign} : live[t] = <<>> /\ reserve(t, size)
MTCommit ==
  \E t \in APs : Len(live[t]) = 1 /\ commit_publish(t, live[t][1].addr, live[t][1].size)
MTCommitCheck == \E t \in APs : commit_check(t)

NextMT ==
  \/ MTReserve
  \/ MTCommit
  \/ MTCommitCheck
  \/ Flip

SpecMT == Init /\ [][NextMT]_vars

\* -- the client loop of the module documentation: reserve, initialise, commit,
\* and again from reserve while commit returns false; one loop per object
LoopDone == Cardinality(committed[Mutator]) >= NumObjs * align
\* reserve(..).expect("Allocation failed") panics on an error
LoopPanicked == last.op = "reserve" /\ ~last.ok
\* The value an attempt writes: not the one an attempt before it left in the block.
AttemptVal ==
  IF mem[live[Mutator][Len(live[Mutator])].addr] = FirstVal
  THEN CHOOSE v \in Vals : v # FirstVal ELSE FirstVal
LoopReserve ==
  /\ ~LoopDone /\ ~LoopPanicked
  /\ live[Mutator] = <<>>
  /\ reserve(Mutator, align)
LoopInitialize == live[Mutator] # <<>> /\ Initialize(Mutator, AttemptVal)
LoopCommit ==
  /\ Len(live[Mutator]) = 1
  /\ wrote[Mutator] # Uninit
  /\ commit_publish(Mutator, live[Mutator][1].addr, live[Mutator][1].size)
LoopCommitCheck == commit_check(Mutator)
LoopStep == LoopReserve \/ LoopInitialize \/ LoopCommit \/ LoopCommitCheck
\* A flip that lands between a reserve and its commit.
LimboFlip == Flip /\ live[Mutator] # <<>> /\ pc[Mutator] = "idle"

NextLoop ==
  \/ LoopReserve
  \/ LoopInitialize
  \/ LoopCommit
  \/ LoopCommitCheck
  \/ Flip

\* The client thread keeps being scheduled.
SpecLoop == Init /\ [][NextLoop]_vars /\ WF_vars(LoopStep)

\* -- the result-code channel: an engine call comes back with any code of
\* mps_res_t and the wrapper turns it into its Result
ResMin == 0 - 2^(ResBits - 1)
ResMax == 2^(ResBits - 1) - 1
ResCodes == ((0 - MaxCode)..MaxCode) \cup {ResMin, ResMax}
\* Pool::create_allocation_point and the other callers of handle_mps_res!
HandleRes ==
  \E code \in ResCodes :
    /\ last' = [NoCall EXCEPT !.op = "handle", !.code = code,
                              !.ok = handle_mps_res(code).ok,
                              !.err = handle_mps_res(code).err]
    /\ UNCHANGED <<align, extF, gcF, apF, engF, aborted, mem, pc, carg, cliF>>
\* AllocationPoint::fill, the engine's mps_ap_fill having returned code
FillRes ==
  \E code \in ResCodes, res \in {NULL, SegBase(1)} :
    /\ code = MPS_RES_OK <=> res # NULL
    /\ last' = [NoCall EXCEPT !.op = "fill", !.code = code,
                              !.ok = FillResult(code, res).ok,
                              !.addr = FillResult(code, res).addr,
                              !.err = FillResult(code, res).err]
    /\ UNCHANGED <<align, extF, gcF, apF, engF, aborted, mem, pc, carg, cliF>>

NextErr ==
  \/ HandleRes
  \/ FillRes

SpecErr == Init /\ [][NextErr]_vars

\* ------------------------------------------------------ object format
\* A TreeObject in memory h at address a: the tag word, then the payload.
\* Forwarding { new, size }, Tree(children: None or (left, right)), Padding { size }.
Tag(h, a) == h[a]

\* TreeObject::size
TreeObject_size(h, a) ==
  CASE Tag(h, a) = TagForwarding -> h[a + 2]
    [] Tag(h, a) = TagTree -> TreeObjectWords
    [] Tag(h, a) = TagPadding -> h[a + 1]
    [] OTHER -> 0

\* debug_assert!(res >= size_of::<TreeObject>()) in TreeObject::size
size_assertion(h, a) == TreeObject_size(h, a) >= TreeObjectWords

\* A slip of forward: the marker given the size of a TreeObject.
forward_OwnSize(h, old, new) ==
  [h EXCEPT ![old] = TagForwarding, ![old + 1] = new, ![old + 2] = TreeObjectWords]
\* TreeObject::forward: old.write(Forwarding { new, size: (*old).size() })
forward(h, old, new) ==
  [h EXCEPT ![old] = TagForwarding, ![old + 1] = new, ![old + 2] = TreeObject_size(h, old)]

\* A slip of is_forwarded: every marker taken for a forwarding marker.
is_forwarded_AnyMarker(h, old) == IF Tag(h, old) # TagTree THEN h[old + 1] ELSE NULL
\* TreeObject::is_forwarded
is_forwarded(h, old) == IF Tag(h, old) = TagForwarding THEN h[old + 1] ELSE NULL

\* A slip of pad: the size of the marker itself stored, not the size asked for.
pad_OwnSize(h, a, n, junk) ==
  [h EXCEPT ![a] = TagPadding, ![a + 1] = TreeObjectWords, ![a + 2] = junk]
\* TreeObject::pad: addr.write(Padding { size }).  The write covers the whole
\* TreeObject; the word the variant does not use gets an unspecified value.
pad(h, a, n, junk) ==
  [h EXCEPT ![a] = TagPadding, ![a + 1] = n, ![a + 2] = junk]

\* A slip of skip: a step of one TreeObject, whatever the object's size.
skip_OneObject(h, a) == a + TreeObjectWords
\* TreeObject::skip
skip(h, a) == a + TreeObject_size(h, a)

\* ptr.write(TreeObject::Tree(Tree { children: Cell::new(None) }))
write_tree(h, a, junk) == [h EXCEPT ![a] = TagTree, ![a + 1] = NULL, ![a + 2] = junk]

\* Values an unspecified word can end up with: what was there, or something else.
Junk(h, a) == {h[a], NULL}

\* -- the engine and the client working on the formatted heap
ObjAt(a) == CHOOSE o \in objs : o.addr = a
Starts == {o.addr : o \in objs}

\* A committed allocation of a tree node at the end of the formatted part.
FmtAlloc ==
  /\ top + TreeObjectWords <= HeapLimit
  /\ \E junk \in Junk(heap, top + 2) : heap' = write_tree(heap, top, junk)
  /\ top' = top + TreeObjectWords
  /\ objs' = objs \cup {[addr |-> top, size |-> TreeObjectWords, kind |-> "tree", new |-> NULL]}
  /\ fmtcall' = [NoFmtCall EXCEPT !.op = "alloc", !.addr = top]
  /\ UNCHANGED <<align, extF, apF, engF, aborted, mem, pc, carg, cliF, last, scanF>>

\* tree.children.set(Some((left, right))): the children were allocated after the node.
FmtSetChildren ==
  \E o \in objs, l \in Starts, r \in Starts :
    /\ o.kind = "tree" /\ ObjAt(l).kind = "tree" /\ ObjAt(r).kind = "tree"
    /\ heap[o.addr + 1] = NULL
    /\ l > o.addr /\ r > o.addr
    /\ heap' = [heap EXCEPT ![o.addr + 1] = l, ![o.addr + 2] = r]
    /\ fmtcall' = [NoFmtCall EXCEPT !.op = "set", !.addr = o.addr]
    /\ UNCHANGED <<align, extF, apF, engF, aborted, mem, pc, carg, cliF, last, scanF, top, objs>>

\* The engine pads unused space at the end of the formatted part.
FmtPadTail ==
  \E n \in TreeObjectWords..HeapWords :
    /\ top + n <= HeapLimit
    /\ \E junk \in Junk(heap, top + 2) : heap' = pad(heap, top, n, junk)
    /\ top' = top + n
    /\ objs' = objs \cup {[addr |-> top, size |-> n, kind |-> "pad", new |-> NULL]}
    /\ fmtcall' = [NoFmtCall EXCEPT !.op = "pad", !.addr = top, !.arg = n]
    /\ UNCHANGED <<align, extF, apF, engF, aborted, mem, pc, carg, cliF, last, scanF>>

\* The engine pads over an object it has reclaimed.
FmtPadOver ==
  \E o \in objs : \E junk \in Junk(heap, o.addr + 2) :
    /\ heap' = pad(heap, o.addr, o.size, junk)
    /\ objs' = (objs \ {o}) \cup {[o EXCEPT !.kind = "pad", !.new = NULL]}
    /\ fmtcall' = [NoFmtCall EXCEPT !.op = "pad", !.addr = o.addr, !.arg = o.size]
    /\ UNCHANGED <<align, extF, apF, engF, aborted, mem, pc, carg, cliF, last, scanF, top>>

\* The engine has moved the object at old to new and leaves a forwarding marker.
FmtForward ==
  \E o \in objs, new \in NewAddrs :
    /\ heap' = forward(heap, o.addr, new)
    /\ objs' = (objs \ {o}) \cup {[o EXCEPT !.kind = "fwd", !.new = new]}
    /\ fmtcall' = [NoFmtCall EXCEPT !.op = "forward", !.addr = o.addr, !.arg = new,
                                     !.pre = skip(heap, o.addr)]
    /\ UNCHANGED <<align, extF, apF, engF, aborted, mem, pc, carg, cliF, last, scanF, top>>

\* The engine asks whether an object is forwarded.
FmtIsForwarded ==
  \E o \in objs :
    /\ fmtcall' = [NoFmtCall EXCEPT !.op = "is_forwarded", !.addr = o.addr,
                                     !.ret = is_forwarded(heap, o.addr)]
    /\ UNCHANGED <<align, extF, apF, engF, aborted, mem, pc, carg, cliF, last, scanF, heap, top, objs>>

NextFmt ==
  \/ FmtAlloc
  \/ FmtSetChildren
  \/ FmtPadTail
  \/ FmtPadOver
  \/ FmtForward
  \/ FmtIsForwarded

SpecFmt == Init /\ [][NextFmt]_vars

\* ------------------------------------------------------ scanning
\* A slip of the bit computation: the zone shift left out.
ZoneBit_NoShift(a, zs) == a % ZoneBits
\* The bit should_fix computes for an address:
\* 1 << ((addr >> zs) & (bits of a word - 1)), as the index of that bit.
ZoneBit(a, zs) == (a \div (2^zs)) % ZoneBits

\* A slip of should_fix: the tally updated only for an interesting address.
should_fix_TallyIfHit(st, a) ==
  LET wt == ZoneBit(a, st.zs) IN
  [st |-> IF wt \in st.w THEN [st EXCEPT !.ufs = @ \cup {wt}] ELSE st, ret |-> wt \in st.w]
\* ScanFixState::should_fix: st is the ScanFixState, a the address it is given.
should_fix(st, a) ==
  LET wt == ZoneBit(a, st.zs) IN
  [st |-> [st EXCEPT !.ufs = @ \cup {wt}], ret |-> wt \in st.w]

\* A slip of force_fix: only a positive result taken for a failure.
force_fix_PositiveOnly(res) ==
  IF res <= 0 THEN [ok |-> TRUE, err |-> MPS_RES_OK] ELSE [ok |-> FALSE, err |-> res]
\* ScanFixState::force_fix, the engine's _mps_fix2 having returned res.
force_fix(res) ==
  IF res = 0 THEN [ok |-> TRUE, err |-> MPS_RES_OK] ELSE [ok |-> FALSE, err |-> res]

\* ScanFixState::fix on the reference slot at address slot holding ref:
\* self.should_fix(addr) is handed addr, the `&mut *mut T` itself, which
\* coerces to a pointer to the slot.  res and moved are what the engine's fix
\* returns and leaves in the slot if it is called.
fix(st, slot, ref, res, moved) ==
  LET sf == should_fix(st, slot) IN
  IF sf.ret
  THEN [st |-> sf.st, ok |-> force_fix(res).ok, err |-> force_fix(res).err,
        engine |-> TRUE, ref |-> IF res = 0 THEN moved ELSE ref]
  ELSE [st |-> sf.st, ok |-> TRUE, err |-> MPS_RES_OK, engine |-> FALSE, ref |-> ref]

\* `base.add(1)` on a *mut TreeObject
add_one(a) == a + TreeObjectWords

\* Addresses of the locals `left` and `right` of the scan method, on the stack.
StackLeft == WordMod - 2
StackRight == WordMod - 1

\* -- the engine's side of a scan
ZoneShifts == {0, 2}
Whites == {NoBits, {0}, {ZoneBits - 1}, 0..(ZoneBits - 1)}
Tallies == {NoBits, {1}}
\* Result codes the engine's fix can fail with.
FixCodes == {MPS_RES_MEMORY, -1}
\* Where the engine puts the copy of the heap object at a when it moves it.
ToSpace(a) == HeapLimit + (a - HeapBase)
\* What the engine's fix can leave in a slot that held ref: what it left
\* before in this scan call for the same reference; else the reference, or
\* the address of the copy if it moves the heap object referred to.  In a
\* moving collection every object but the pinned root is moved, once: a
\* reference to an object already moved becomes the target of its marker.
Moved(ref) ==
  LET before == {i \in 1..Len(slog.calls) :
                   slog.calls[i].engine /\ slog.calls[i].ok /\ slog.calls[i].ref = ref} IN
  IF before # {} THEN {slog.calls[CHOOSE i \in before : TRUE].out}
  ELSE IF gc.phase = "trace"
    THEN IF ref \in Starts \ {gc.root}
         THEN IF is_forwarded(heap, ref) # NULL
              THEN {is_forwarded(heap, ref)} ELSE {ToSpace(ref)}
         ELSE {ref}
  ELSE IF ref \in HeapAddrs THEN {ref, ToSpace(ref)}
  ELSE {ref}

\* What a fix call adds to the log of the scan call; at is the field of the
\* scanned object the reference was read from.
Logged(at, slot, ref, o, res) ==
  [should |-> slog.should \cup {slot},
   calls |-> Append(slog.calls, [at |-> at, slot |-> slot, ref |-> ref, engine |-> o.engine,
                                 res |-> IF o.engine THEN res ELSE MPS_RES_OK,
                                 ok |-> o.ok, err |-> o.err, out |-> o.ref]),
   entry |-> slog.entry,
   starts |-> slog.starts]

\* A slip of fix_with: the tally written back before the failure is returned.
ScanFails_WriteBack(o) ==
  /\ sfs' = [sfs EXCEPT !.pc = "ret", !.zs = o.st.zs, !.w = o.st.w, !.ufs = o.st.ufs,
                        !.ret = o.err]
  /\ ss' = [ss EXCEPT !.ufs = o.st.ufs]
  /\ UNCHANGED heap
\* The closure returned Err(code): fix_with returns code, _ufs not written.
ScanFails(o) ==
  /\ sfs' = [sfs EXCEPT !.pc = "ret", !.zs = o.st.zs, !.w = o.st.w, !.ufs = o.st.ufs,
                        !.ret = o.err]
  /\ UNCHANGED <<ss, heap>>

\* The engine calls the format's scan on the formatted objects from base on;
\* fix_with copies _zs, _w and _ufs into the ScanFixState.
ScanBegin ==
  /\ sfs.pc = "idle"
  /\ \E b \in Starts, zs \in ZoneShifts, w \in Whites, ufs \in Tallies :
       /\ ss' = [zs |-> zs, w |-> w, ufs |-> ufs]
       /\ sfs' = [NoScan EXCEPT !.pc = "loop", !.zs = zs, !.w = w, !.ufs = ufs,
                               !.base = b, !.limit = top]
       /\ slog' = [NoLog EXCEPT !.entry = ufs]
  /\ UNCHANGED <<align, extF, apF, engF, aborted, mem, pc, carg, cliF, last,
                 heap, top, objs, fmtcall>>

\* The arms `match *obj` can take: the one of the tag, or any of them for a
\* word that is no tag of a TreeObject.
Arms(h, a) ==
  IF Tag(h, a) \in {TagForwarding, TagTree, TagPadding}
  THEN {Tag(h, a)}
  ELSE {TagForwarding, TagTree, TagPadding}
\* What a read of the word at a gives: memory past the heap is not the
\* format's, and holds anything.
Field(h, a) == IF a \in DOMAIN h THEN {h[a]} ELSE {NULL, HeapBase}
\* A write of v to the word at a.
Store(h, a, v) == IF a \in DOMAIN h THEN [h EXCEPT ![a] = v] ELSE h

\* One turn of `while base < limit`, up to its first fix: a forwarding marker
\* (its `new` is fixed in place), a tree with children (`left` is fixed), or
\* an object with nothing to fix.
ScanObject ==
  /\ sfs.pc = "loop"
  /\ sfs.base < sfs.limit
  /\ LET b == sfs.base
         st == [zs |-> sfs.zs, w |-> sfs.w, ufs |-> sfs.ufs]
         seen == [slog EXCEPT !.starts = @ \cup {b}] IN
     \E arm \in Arms(heap, b), f1 \in Field(heap, b + 1), f2 \in Field(heap, b + 2) :
     CASE arm = TagForwarding ->
            \E res \in {MPS_RES_OK} \cup FixCodes, moved \in Moved(f1) :
              LET o == fix(st, b + 1, f1, res, moved) IN
              /\ slog' = [Logged(b + 1, b + 1, f1, o, res) EXCEPT !.starts = seen.starts]
              /\ IF o.ok
                 THEN /\ heap' = Store(heap, b + 1, o.ref)
                      /\ sfs' = [sfs EXCEPT !.ufs = o.st.ufs, !.base = add_one(b)]
                      /\ UNCHANGED ss
                 ELSE ScanFails(o)
       [] arm = TagTree /\ f1 # NULL ->
            \E res \in {MPS_RES_OK} \cup FixCodes, moved \in Moved(f1) :
              LET o == fix(st, StackLeft, f1, res, moved) IN
              /\ slog' = [Logged(b + 1, StackLeft, f1, o, res) EXCEPT !.starts = seen.starts]
              /\ IF o.ok
                 THEN /\ sfs' = [sfs EXCEPT !.pc = "right", !.ufs = o.st.ufs,
                                           !.left = o.ref, !.right = f2]
                      /\ UNCHANGED <<ss, heap>>
                 ELSE ScanFails(o)
       [] OTHER ->
            /\ sfs' = [sfs EXCEPT !.base = add_one(b)]
            /\ slog' = seen
            /\ UNCHANGED <<ss, heap>>
  /\ UNCHANGED <<align, extF, apF, engF, aborted, mem, pc, carg, cliF, last, top, objs, fmtcall>>

\* The rest of the turn for a tree with children: `right` is fixed and both
\* are stored back with children.set.
ScanRight ==
  /\ sfs.pc = "right"
  /\ LET b == sfs.base
         st == [zs |-> sfs.zs, w |-> sfs.w, ufs |-> sfs.ufs] IN
     \E res \in {MPS_RES_OK} \cup FixCodes, moved \in Moved(sfs.right) :
       LET o == fix(st, StackRight, sfs.right, res, moved) IN
       /\ slog' = Logged(b + 2, StackRight, sfs.right, o, res)
       /\ IF o.ok
          THEN /\ heap' = Store(Store(heap, b + 1, sfs.left), b + 2, o.ref)
               /\ sfs' = [sfs EXCEPT !.pc = "loop", !.ufs = o.st.ufs, !.base = add_one(b),
                                    !.left = NULL, !.right = NULL]
               /\ UNCHANGED ss
          ELSE ScanFails(o)
  /\ UNCHANGED <<align, extF, apF, engF, aborted, mem, pc, carg, cliF, last, top, objs, fmtcall>>

\* The loop is over: the closure returns Ok(()), fix_with writes the tally
\* back to _ufs and returns MPS_RES_OK.
ScanEnd ==
  /\ sfs.pc = "loop"
  /\ sfs.base >= sfs.limit
  /\ ss' = [ss EXCEPT !.ufs = sfs.ufs]
  /\ sfs' = [sfs EXCEPT !.pc = "ret", !.ret = MPS_RES_OK]
  /\ UNCHANGED <<align, extF, apF, engF, aborted, mem, pc, carg, cliF, last,
                 heap, top, objs, fmtcall, slog>>

\* Building the heap the scans run on: tree nodes and forwarding markers.
ScanHeapStep ==
  /\ sfs.pc = "idle"
  /\ FmtAlloc \/ FmtSetChildren \/ FmtForward

\* The engine pads space of the heap a scan will run over.
ScanPadStep ==
  /\ sfs.pc = "idle"
  /\ FmtPadTail

NextScanPad ==
  \/ ScanHeapStep
  \/ ScanPadStep
  \/ ScanBegin
  \/ ScanObject
  \/ ScanRight
  \/ ScanEnd

SpecScanPad == Init /\ [][NextScanPad]_vars

NextScan ==
  \/ ScanHeapStep
  \/ ScanBegin
  \/ ScanObject
  \/ ScanRight
  \/ ScanEnd

SpecScan == Init /\ [][NextScan]_vars

\* ------------------------------------------------------ delegated scans
\* Reference slots the scans fix, and the references they hold.
NestSlots == {HeapBase + 1, HeapBase + 2, StackLeft, StackRight}
NestRefs == {HeapBase, HeapBase + TreeObjectWords}

\* ScanState::fix_with, MPS_SCAN_BEGIN: the ScanFixState made from the
\* engine's scan state raw.
fix_with_begin(raw) == [zs |-> raw.zs, w |-> raw.w, ufs |-> raw.ufs]

\* A slip of fix_with: the tally written back whatever the closure returned.
fix_with_WriteAlways(raw, st, r) ==
  [raw |-> [raw EXCEPT !.ufs = st.ufs], ret |-> IF r.ok THEN MPS_RES_OK ELSE r.err]
\* ScanState::fix_with once the closure has returned r, its ScanFixState being
\* st: Err(code) is returned as code; after Ok the tally is written to _ufs
\* (MPS_SCAN_END) and MPS_RES_OK returned.
fix_with(raw, st, r) ==
  IF r.ok
  THEN [raw |-> [raw EXCEPT !.ufs = st.ufs], ret |-> MPS_RES_OK]
  ELSE [raw |-> raw, ret |-> r.err]

\* A slip of call_scan: the tally of the sub-scan not merged.
call_scan_NoMerge(st, raw, r) ==
  IF r.ok THEN [st |-> st, ok |-> TRUE, err |-> MPS_RES_OK]
  ELSE [st |-> st, ok |-> FALSE, err |-> r.err]
\* ScanFixState::call_scan once func has returned r, raw being the engine's
\* scan state it left: `func(&mut self.state)?`, then `self.ufs |= _ufs`.
call_scan(st, raw, r) ==
  IF r.ok THEN [st |-> [st EXCEPT !.ufs = @ \cup raw.ufs], ok |-> TRUE, err |-> MPS_RES_OK]
  ELSE [st |-> st, ok |-> FALSE, err |-> r.err]

\* The function handed to call_scan turns the code its fix_with returned into
\* a Result.
sub_result(code) ==
  IF code = MPS_RES_OK THEN [ok |-> TRUE, err |-> MPS_RES_OK] ELSE [ok |-> FALSE, err |-> code]

\* The engine calls a scan method, which enters fix_with.
NestBegin ==
  /\ nest.pc = "idle"
  /\ \E zs \in ZoneShifts, w \in Whites, ufs \in Tallies :
       LET raw == [zs |-> zs, w |-> w, ufs |-> ufs] IN
       nest' = [NoNest EXCEPT !.pc = "before", !.raw = raw, !.outer = fix_with_begin(raw),
                              !.entry = ufs]
  /\ UNCHANGED <<align, aps, lifeF, colF, treeF, moveF, apF, engF, aborted, mem, pc, carg,
                 cliF, last, gcF>>

\* The closure of the outer scan fixes a reference, before or after the call
\* of the sub-scan; a failure is returned through fix_with at once.
NestFix ==
  /\ nest.pc \in {"before", "after"}
  /\ \E slot \in NestSlots, ref \in NestRefs, res \in {MPS_RES_OK} \cup FixCodes :
       LET o == fix(nest.outer, slot, ref, res, ref)
           bit == (slot \div (2^(nest.raw.zs))) % ZoneBits
           seen == IF nest.pc = "before"
                   THEN [nest EXCEPT !.before = @ \cup {bit}]
                   ELSE [nest EXCEPT !.after = @ \cup {bit}] IN
       IF o.ok
       THEN nest' = [seen EXCEPT !.outer = o.st]
       ELSE LET end == fix_with(nest.raw, o.st, [ok |-> FALSE, err |-> o.err]) IN
            nest' = [seen EXCEPT !.pc = "ret", !.outer = o.st, !.raw = end.raw,
                                 !.ret = end.ret]
  /\ UNCHANGED <<align, aps, lifeF, colF, treeF, moveF, apF, engF, aborted, mem, pc, carg,
                 cliF, last, gcF>>

\* The outer closure calls call_scan; the function it hands over enters
\* fix_with on the ScanState it is given, the same engine scan state.
NestCall ==
  /\ nest.pc = "before"
  /\ nest' = [nest EXCEPT !.pc = "sub", !.called = TRUE, !.sub = fix_with_begin(nest.raw)]
  /\ UNCHANGED <<align, aps, lifeF, colF, treeF, moveF, apF, engF, aborted, mem, pc, carg,
                 cliF, last, gcF>>

\* The closure of the sub-scan fixes a reference.  When the fix fails the
\* sub-scan's fix_with returns the code, call_scan returns it as Err and the
\* outer closure returns that with `?`.
NestSubFix ==
  /\ nest.pc = "sub"
  /\ \E slot \in NestSlots, ref \in NestRefs, res \in {MPS_RES_OK} \cup FixCodes :
       LET o == fix(nest.sub, slot, ref, res, ref)
           bit == (slot \div (2^(nest.raw.zs))) % ZoneBits
           seen == [nest EXCEPT !.inner = @ \cup {bit}] IN
       IF o.ok
       THEN nest' = [seen EXCEPT !.sub = o.st]
       ELSE LET subend == fix_with(nest.raw, o.st, [ok |-> FALSE, err |-> o.err])
                cs == call_scan(nest.outer, subend.raw, sub_result(subend.ret))
                end == fix_with(subend.raw, cs.st, [ok |-> cs.ok, err |-> cs.err]) IN
            nest' = [seen EXCEPT !.pc = "ret", !.sub = o.st, !.subret = subend.ret,
                                 !.outer = cs.st, !.callret = cs.err, !.raw = end.raw,
                                 !.ret = end.ret]
  /\ UNCHANGED <<align, aps, lifeF, colF, treeF, moveF, apF, engF, aborted, mem, pc, carg,
                 cliF, last, gcF>>

\* The closure of the sub-scan returns Ok(()): its fix_with writes the tally
\* back and returns MPS_RES_OK, and call_scan merges the engine's tally into
\* the outer ScanFixState.
NestSubEnd ==
  /\ nest.pc = "sub"
  /\ LET subend == fix_with(nest.raw, nest.sub, [ok |-> TRUE, err |-> MPS_RES_OK])
         cs == call_scan(nest.outer, subend.raw, sub_result(subend.ret)) IN
     nest' = [nest EXCEPT !.pc = "after", !.raw = subend.raw, !.subret = subend.ret,
                          !.outer = cs.st, !.callret = cs.err]
  /\ UNCHANGED <<align, aps, lifeF, colF, treeF, moveF, apF, engF, aborted, mem, pc, carg,
                 cliF, last, gcF>>

\* The outer closure returns Ok(()): fix_with writes the tally back.
NestEnd ==
  /\ nest.pc \in {"before", "after"}
  /\ LET end == fix_with(nest.raw, nest.outer, [ok |-> TRUE, err |-> MPS_RES_OK]) IN
     nest' = [nest EXCEPT !.pc = "ret", !.raw = end.raw, !.ret = end.ret]
  /\ UNCHANGED <<align, aps, lifeF, colF, treeF, moveF, apF, engF, aborted, mem, pc, carg,
                 cliF, last, gcF>>

\* The engine has read the result; the next scan call can begin.
NestReturn ==
  /\ nest.pc = "ret"
  /\ nest' = NoNest
  /\ UNCHANGED <<align, aps, lifeF, colF, treeF, moveF, apF, engF, aborted, mem, pc, carg,
                 cliF, last, gcF>>

NextNest ==
  \/ NestBegin
  \/ NestFix
  \/ NestCall
  \/ NestSubFix
  \/ NestSubEnd
  \/ NestEnd
  \/ NestReturn

SpecNest == Init /\ [][NextNest]_vars

\* ------------------------------------------------------ moving collection
\* Zone shifts of the arena in a moving collection.
GCZoneShifts == {2, 3}
\* The engine copies the tree object at from to the address to.
copy(h, from, to) ==
  [h EXCEPT ![to] = h[from], ![to + 1] = h[from + 1], ![to + 2] = h[from + 2]]

\* The engine's side of the fixes logged from the i-th on: an object fixed
\* for the first time has been copied and a forwarding marker left.
RECURSIVE ApplyMoves(_, _)
ApplyMoves(h, i) ==
  IF i > Len(slog.calls) THEN h
  ELSE LET c == slog.calls[i] IN
       IF c.engine /\ c.ok /\ c.out # c.ref /\ c.ref \in Starts /\ is_forwarded(h, c.ref) = NULL
       THEN ApplyMoves(forward(copy(h, c.ref, c.out), c.ref, c.out), i + 1)
       ELSE ApplyMoves(h, i + 1)
\* The objects of the heap a scan call's fixes have moved.
MovedNow ==
  {slog.calls[i].ref : i \in {j \in 1..Len(slog.calls) :
     /\ slog.calls[j].engine /\ slog.calls[j].ok
     /\ slog.calls[j].out # slog.calls[j].ref
     /\ slog.calls[j].ref \in Starts
     /\ is_forwarded(heap, slog.calls[j].ref) = NULL}}

\* Building the heap a collection runs on: tree nodes.
GCHeapStep ==
  /\ gc.phase = "idle" /\ sfs.pc = "idle"
  /\ FmtAlloc \/ FmtSetChildren

\* A collection starts: everything in the heap is condemned; the tree the
\* client retains is referred to from its stack, ambiguously, and is pinned.
GCFlip ==
  /\ gc.phase = "idle" /\ sfs.pc = "idle"
  /\ \E r \in Starts, zs \in GCZoneShifts :
       gc' = [phase |-> "trace", root |-> r, grey |-> {r}, copies |-> {}, zs |-> zs,
              w |-> {ZoneBit(a, zs) : a \in HeapBase..(top - 1)}, pre |-> heap]
  /\ UNCHANGED <<align, auxF, lifeF, colF, treeF, gcF, apF, engF, aborted, mem, pc, carg, cliF, last>>

\* The engine calls the format's scan on a grey object.
GCScanBegin ==
  /\ gc.phase = "trace" /\ sfs.pc = "idle"
  /\ \E g \in gc.grey :
       /\ ss' = [zs |-> gc.zs, w |-> gc.w, ufs |-> NoBits]
       /\ sfs' = [NoScan EXCEPT !.pc = "loop", !.zs = gc.zs, !.w = gc.w,
                               !.base = g, !.limit = add_one(g)]
       /\ slog' = NoLog
  /\ UNCHANGED <<align, extF, apF, engF, aborted, mem, pc, carg, cliF, last,
                 heap, top, objs, fmtcall>>

\* The scan call has returned: what its fixes moved is copied and forwarded,
\* the copies are grey; the object scanned is no longer grey unless the call
\* failed, in which case the engine will scan it again.
GCScanReturn ==
  /\ gc.phase = "trace" /\ sfs.pc = "ret"
  /\ heap' = ApplyMoves(heap, 1)
  /\ objs' = {IF o.addr \in MovedNow THEN [o EXCEPT !.kind = "fwd", !.new = ToSpace(o.addr)] ELSE o :
                o \in objs}
  /\ gc' = [gc EXCEPT !.grey = (IF sfs.ret = MPS_RES_OK THEN @ \ {sfs.base - TreeObjectWords} ELSE @)
                                 \cup {ToSpace(a) : a \in MovedNow},
                      !.copies = @ \cup {ToSpace(a) : a \in MovedNow}]
  /\ sfs' = NoScan
  /\ slog' = NoLog
  /\ UNCHANGED <<align, auxF, lifeF, colF, treeF, apF, engF, aborted, mem, pc, carg, cliF, last,
                 ss, top, fmtcall>>

\* Nothing is grey: the engine reclaims the condemned memory, padding over
\* every object of the heap but the pinned root.
RECURSIVE PadAll(_, _)
PadAll(h, os) ==
  IF os = {} THEN h
  ELSE LET o == CHOOSE x \in os : TRUE IN
       PadAll(pad(h, o.addr, o.size, h[o.addr + 2]), os \ {o})
GCReclaim ==
  /\ gc.phase = "trace" /\ sfs.pc = "idle" /\ gc.grey = {}
  /\ heap' = PadAll(heap, {o \in objs : o.addr # gc.root})
  /\ objs' = {IF o.addr # gc.root THEN [o EXCEPT !.kind = "pad", !.new = NULL] ELSE o : o \in objs}
  /\ gc' = [gc EXCEPT !.phase = "done"]
  /\ UNCHANGED <<align, auxF, lifeF, colF, treeF, apF, engF, aborted, mem, pc, carg, cliF, last,
                 scanF, top, fmtcall>>

NextGC ==
  \/ GCHeapStep
  \/ GCFlip
  \/ GCScanBegin
  \/ ScanObject
  \/ ScanRight
  \/ ScanEnd
  \/ GCScanReturn
  \/ GCReclaim

SpecGC == Init /\ [][NextGC]_vars

\* ------------------------------------------------------ lifecycle
\* Alignments a format's methods can declare (RawFormatMethods::ALIGNMENT).
FmtAligns == 0..(MaxAlign + 1)
IsPowerOfTwo(a) == \E k \in 0..WordBits : a = 2^k
\* Result codes mps_fmt_create_k can return for an alignment: MPS_RES_PARAM
\* for one that is zero or not a power of two, else success or lack of memory.
FmtCreateCodes(a) ==
  IF IsPowerOfTwo(a) THEN {MPS_RES_OK, MPS_RES_MEMORY} ELSE {MPS_RES_PARAM}
\* Result codes of mps_pool_create_k.
PoolCreateCodes == {MPS_RES_OK, MPS_RES_MEMORY}
PoolClasses == {"ams", "amc"}

Event(op, id) == [op |-> op, id |-> id]

\* A slip of managed_with: the engine's result not looked at.
managed_with_Unchecked(a, res) ==
  [ok |-> TRUE, err |-> "none"]
\* ObjectFormat::managed_with, mps_fmt_create_k having returned res for the
\* alignment a: `handle_mps_res!(..)?`, then Ok(ObjectFormat { .. }).
managed_with(a, res) ==
  [ok |-> handle_mps_res(res).ok, err |-> handle_mps_res(res).err]

\* A slip of the pools' drop: the format destroyed before the pool.
pool_drop_FormatFirst(p) ==
  <<Event("fmt_destroy", p), Event("pool_destroy", p)>>
\* Drop for AutoMarkSweep and for AutoMostlyCopyingPool: mps_pool_destroy,
\* then ManuallyDrop::drop of the format, which calls mps_fmt_destroy.
pool_drop(p) ==
  <<Event("pool_destroy", p), Event("fmt_destroy", p)>>

\* The next format a program creates.
FreshFmt ==
  CHOOSE f \in FmtIds : fmts[f].rust = "none" /\ \A g \in FmtIds : g < f => fmts[g].rust # "none"

\* ObjectFormat::managed_with::<M>(&arena)
ManagedWith ==
  /\ arena = "live"
  /\ \E f \in FmtIds : fmts[f].rust = "none"
  /\ \E a \in FmtAligns : \E res \in FmtCreateCodes(a) :
       LET f == FreshFmt
           r == managed_with(a, res) IN
       /\ lcall' = [op |-> "managed_with", id |-> f, align |-> a, code |-> res,
                    ok |-> r.ok, err |-> r.err]
       /\ IF r.ok
          THEN /\ fmts' = [fmts EXCEPT ![f] = [eng |-> IF res = MPS_RES_OK THEN "live" ELSE "none",
                                               rust |-> "client", align |-> a]]
               /\ elog' = IF res = MPS_RES_OK THEN Append(elog, Event("fmt_create", f)) ELSE elog
          ELSE UNCHANGED <<fmts, elog>>
  /\ UNCHANGED <<align, auxF, moveF, apF, engF, aborted, mem, pc, carg, cliF, last, colF, treeF, gcF, arena, pools>>

\* AutoMarkSweepBuilder::build and AutoMostlyCopyingBuilder::build on format
\* f: the format goes into a ManuallyDrop before mps_pool_create_k is called,
\* and `?` returns on its failure.
PoolBuild ==
  /\ arena = "live"
  /\ \E f \in FmtIds, class \in PoolClasses, res \in PoolCreateCodes :
       /\ fmts[f].rust = "client"
       /\ lcall' = [op |-> "build", id |-> f, align |-> fmts[f].align, code |-> res,
                    ok |-> handle_mps_res(res).ok, err |-> handle_mps_res(res).err]
       /\ IF handle_mps_res(res).ok
          THEN /\ pools' = [pools EXCEPT ![f] = [eng |-> "live", rust |-> "live", class |-> class]]
               /\ fmts' = [fmts EXCEPT ![f].rust = "pool"]
               /\ elog' = Append(elog, Event("pool_create", f))
          ELSE /\ fmts' = [fmts EXCEPT ![f].rust = "leaked"]
               /\ UNCHANGED <<pools, elog>>
  /\ UNCHANGED <<align, auxF, moveF, apF, engF, aborted, mem, pc, carg, cliF, last, colF, treeF, gcF, arena>>

\* A pool is dropped.
PoolDrop ==
  /\ \E p \in FmtIds :
       /\ pools[p].rust = "live"
       /\ elog' = elog \o pool_drop(p)
       /\ pools' = [pools EXCEPT ![p].rust = "dropped", ![p].eng = "dead"]
       /\ fmts' = [fmts EXCEPT ![p].rust = "dropped", ![p].eng = "dead"]
       /\ lcall' = [NoLifeCall EXCEPT !.op = "drop_pool", !.id = p]
  /\ UNCHANGED <<align, auxF, moveF, apF, engF, aborted, mem, pc, carg, cliF, last, colF, treeF, gcF, arena>>

\* An ObjectFormat the client still owns is dropped.
FmtDrop ==
  /\ \E f \in FmtIds :
       /\ fmts[f].rust = "client"
       /\ elog' = Append(elog, Event("fmt_destroy", f))
       /\ fmts' = [fmts EXCEPT ![f].rust = "dropped", ![f].eng = "dead"]
       /\ lcall' = [NoLifeCall EXCEPT !.op = "drop_format", !.id = f]
  /\ UNCHANGED <<align, auxF, moveF, apF, engF, aborted, mem, pc, carg, cliF, last, colF, treeF, gcF, arena, pools>>

\* The Arena is dropped; the borrow `&'a Arena` in every ObjectFormat<'a> and
\* pool value keeps that from happening while one of them is alive.
ArenaDrop ==
  /\ arena = "live"
  /\ \A f \in FmtIds : fmts[f].rust \notin {"client", "pool"}
  /\ arena' = "destroyed"
  /\ elog' = Append(elog, Event("arena_destroy", 0))
  /\ lcall' = [NoLifeCall EXCEPT !.op = "drop_arena"]
  /\ UNCHANGED <<align, auxF, moveF, apF, engF, aborted, mem, pc, carg, cliF, last, colF, treeF, gcF, fmts, pools>>

NextLife ==
  \/ ManagedWith
  \/ PoolBuild
  \/ PoolDrop
  \/ FmtDrop
  \/ ArenaDrop

SpecLife == Init /\ [][NextLife]_vars

\* -- allocation points in the lifecycle
\* Result codes of mps_ap_create_k.
ApCreateCodes == {MPS_RES_OK, MPS_RES_MEMORY}

\* Pool::create_allocation_point on pool p: the AllocationPoint returned
\* holds the raw pointer and no borrow of the pool.
CreateAllocationPoint ==
  /\ \E p \in FmtIds, res \in ApCreateCodes :
       /\ pools[p].rust = "live"
       /\ aps[p].rust = "none"
       /\ lcall' = [op |-> "create_allocation_point", id |-> p, align |-> 0, code |-> res,
                    ok |-> handle_mps_res(res).ok, err |-> handle_mps_res(res).err]
       /\ IF handle_mps_res(res).ok
          THEN /\ aps' = [aps EXCEPT ![p] = [eng |-> "live", rust |-> "live"]]
               /\ elog' = Append(elog, Event("ap_create", p))
          ELSE UNCHANGED <<aps, elog>>
  /\ UNCHANGED <<align, nest, moveF, apF, engF, aborted, mem, pc, carg, cliF, last, colF,
                 treeF, gcF, arena, fmts, pools>>

\* An AllocationPoint value is dropped: the type has no Drop, no engine call
\* is made.
ApDrop ==
  /\ \E p \in FmtIds :
       /\ aps[p].rust = "live"
       /\ aps' = [aps EXCEPT ![p].rust = "dropped"]
       /\ lcall' = [NoLifeCall EXCEPT !.op = "drop_ap", !.id = p]
  /\ UNCHANGED <<align, nest, moveF, apF, engF, aborted, mem, pc, carg, cliF, last, colF,
                 treeF, gcF, arena, fmts, pools, elog>>

\* reserve or commit is issued on an AllocationPoint the client holds; the
\* call reads the raw pointer and nothing of the pool.
ApUse ==
  /\ \E p \in FmtIds, op \in {"reserve", "commit"} :
       /\ aps[p].rust = "live"
       /\ lcall' = [NoLifeCall EXCEPT !.op = op, !.id = p]
  /\ UNCHANGED <<align, auxF, moveF, apF, engF, aborted, mem, pc, carg, cliF, last, colF,
                 treeF, gcF, arena, fmts, pools, elog>>

NextAp ==
  \/ ManagedWith
  \/ PoolBuild
  \/ CreateAllocationPoint
  \/ ApUse
  \/ ApDrop
  \/ PoolDrop
  \/ FmtDrop
  \/ ArenaDrop

SpecAp == Init /\ [][NextAp]_vars

\* ------------------------------------------------------ collections
\* Result codes mps_arena_start_collect can fail with.
StartCodes == {MPS_RES_OK, MPS_RES_MEMORY, MPS_RES_LIMIT}

\* A slip of begin_collection: the engine's result dropped.
begin_collection_Discard(res) ==
  [ok |-> TRUE, err |-> "none"]
\* Arena::begin_collection, mps_arena_start_collect having returned res
begin_collection(res) ==
  [ok |-> handle_mps_res(res).ok, err |-> handle_mps_res(res).err]

\* Arena::full_collection returns when mps_arena_collect does: when a cycle the
\* engine started after the call (the started-th of the run) has completed.
full_collection_done(entry, started, done, running) ==
  started > entry /\ done >= started /\ ~running

\* Arena::begin_collection: the engine starts a cycle, unless one is running
\* or it fails, and the call returns.
BeginCollection ==
  /\ colcall.pc = "idle"
  /\ \E res \in StartCodes :
       /\ res = MPS_RES_OK => cycles < MaxCycles
       /\ trace' = IF res = MPS_RES_OK THEN "running" ELSE trace
       /\ colcall' = [NoColCall EXCEPT !.op = "begin_collection", !.code = res,
                                       !.entry = cycles,
                                       !.ok = begin_collection(res).ok,
                                       !.err = begin_collection(res).err]
  /\ UNCHANGED <<align, auxF, moveF, apF, engF, aborted, mem, pc, carg, cliF, last, gcF, lifeF, treeF, cycles>>

\* The engine finishes the cycle under way.
TraceFinish ==
  /\ trace = "running"
  /\ trace' = "none"
  /\ cycles' = cycles + 1
  /\ UNCHANGED <<align, auxF, moveF, apF, engF, aborted, mem, pc, carg, cliF, last, gcF, lifeF, treeF, colcall>>

\* Arena::full_collection enters mps_arena_collect.
FullCollectionCall ==
  /\ colcall.pc = "idle"
  /\ cycles + 2 <= MaxCycles
  /\ colcall' = [NoColCall EXCEPT !.op = "full_collection", !.pc = "collect",
                                  !.entry = cycles]
  /\ UNCHANGED <<align, auxF, moveF, apF, engF, aborted, mem, pc, carg, cliF, last, gcF, lifeF, treeF, trace, cycles>>

\* Inside mps_arena_collect, a cycle under way being over: the engine starts
\* the full cycle.
FullCollectionStart ==
  /\ colcall.pc = "collect"
  /\ trace = "none"
  /\ colcall.started = 0
  /\ trace' = "running"
  /\ colcall' = [colcall EXCEPT !.started = cycles + 1]
  /\ UNCHANGED <<align, auxF, moveF, apF, engF, aborted, mem, pc, carg, cliF, last, gcF, lifeF, treeF, cycles>>

\* mps_arena_collect returns; full_collection drops its result and returns ().
FullCollectionReturn ==
  /\ colcall.pc = "collect"
  /\ full_collection_done(colcall.entry, colcall.started, cycles, trace = "running")
  /\ colcall' = [colcall EXCEPT !.pc = "idle"]
  /\ UNCHANGED <<align, auxF, moveF, apF, engF, aborted, mem, pc, carg, cliF, last, gcF, lifeF, treeF, trace, cycles>>

NextCol ==
  \/ BeginCollection
  \/ TraceFinish
  \/ FullCollectionCall
  \/ FullCollectionStart
  \/ FullCollectionReturn

SpecCol == Init /\ [][NextCol]_vars

\* ------------------------------------------------------ building trees
\* A slip of item_check: the node itself not counted.
RECURSIVE item_check_NoSelf(_, _)
item_check_NoSelf(k, tree) ==
  IF k[tree] # NoKids
  THEN item_check_NoSelf(k, k[tree][1]) + item_check_NoSelf(k, k[tree][2])
  ELSE 1
\* item_check(tree), the children read from k
RECURSIVE item_check(_, _)
item_check(k, tree) ==
  IF k[tree] # NoKids
  THEN 1 + item_check(k, k[tree][1]) + item_check(k, k[tree][2])
  ELSE 1

\* The nodes item_check visits from tree.
RECURSIVE Nodes(_, _)
Nodes(k, tree) ==
  IF k[tree] # NoKids
  THEN {tree} \cup Nodes(k, k[tree][1]) \cup Nodes(k, k[tree][2])
  ELSE {tree}

Frame(depth) == [depth |-> depth, stage |-> "alloc", tree |-> NULL, right |-> NULL]
Top == bt.stack[Len(bt.stack)]
Pop == SubSeq(bt.stack, 1, Len(bt.stack) - 1)
SetTop(f) == [bt.stack EXCEPT ![Len(bt.stack)] = f]

\* Addresses alloc_with can return: the allocation point's next free block, or
\* a later one when blocks were passed over (a commit that failed and was
\* retried, a new buffer).
AllocAddrs ==
  {tnext + g * TreeObjectWords : g \in 0..(MaxGaps - bt.gaps)}

\* bottom_up_tree(collector, depth) is called.
BuildCall ==
  /\ bt.stack = <<>> /\ ~bt.returned
  /\ \E d \in 0..MaxDepth :
       bt' = [NoBuild EXCEPT !.depth = d, !.stack = <<Frame(d)>>]
  /\ UNCHANGED <<align, auxF, moveF, apF, engF, aborted, mem, pc, carg, cliF, last, gcF, lifeF, colF,
                 kids, tnext>>

\* alloc_with writes TreeObject::Tree with no children into a fresh block; a
\* tree of depth 0 is returned, a deeper one first calls itself for `right`.
BuildAlloc ==
  /\ bt.stack # <<>> /\ ~bt.returned
  /\ Top.stage = "alloc"
  /\ \E a \in AllocAddrs :
       /\ kids' = [x \in DOMAIN kids \cup {a} |-> IF x = a THEN NoKids ELSE kids[x]]
       /\ tnext' = a + TreeObjectWords
       /\ IF Top.depth > 0
          THEN bt' = [bt EXCEPT !.gaps = @ + (a - tnext) \div TreeObjectWords,
                                !.stack = Append(SetTop([Top EXCEPT !.stage = "right", !.tree = a]),
                                                 Frame(Top.depth - 1))]
          ELSE bt' = [bt EXCEPT !.gaps = @ + (a - tnext) \div TreeObjectWords,
                                !.stack = Pop, !.ret = a, !.returned = TRUE]
  /\ UNCHANGED <<align, auxF, moveF, apF, engF, aborted, mem, pc, carg, cliF, last, gcF, lifeF, colF>>

\* A recursive call has returned: `right` is kept and the call for `left`
\* made, or `left` is there too, children.set stores both and the tree is
\* returned.
BuildResume ==
  /\ bt.stack # <<>> /\ bt.returned
  /\ IF Top.stage = "right"
     THEN /\ bt' = [bt EXCEPT !.returned = FALSE, !.ret = NULL,
                              !.stack = Append(SetTop([Top EXCEPT !.stage = "left", !.right = bt.ret]),
                                               Frame(Top.depth - 1))]
          /\ UNCHANGED kids
     ELSE /\ kids' = [kids EXCEPT ![Top.tree] = <<bt.ret, Top.right>>]
          /\ bt' = [bt EXCEPT !.stack = Pop, !.ret = Top.tree]
  /\ UNCHANGED <<align, auxF, moveF, apF, engF, aborted, mem, pc, carg, cliF, last, gcF, lifeF, colF, tnext>>

NextTree ==
  \/ BuildCall
  \/ BuildAlloc
  \/ BuildResume

SpecTree == Init /\ [][NextTree]_vars

\* ------------------------------------------------------ claims
\* The sum of the sizes of the blocks a thread holds.
RECURSIVE SumSizes(_)
SumSizes(q) == IF q = <<>> THEN 0 ELSE Head(q).size + SumSizes(Tail(q))

\* The buffer had room for the reserve `last` records: the cursor plus the size
\* stays within the word and within limit.
HadRoom ==
  /\ last.size > 0
  /\ last.preAlloc + last.size < WordMod
  /\ last.preAlloc + last.size <= last.preLimit

\* C1 as stated: a reserve whose size is not a multiple of the pool's alignment
\* ends in an error and leaves the allocation cursor where it was.
C1_RejectsMisaligned ==
  (last.op = "reserve" /\ last.size % align # 0)
    => (~last.ok /\ last.postAlloc = last.preAlloc)

\* C1 amended: reserve makes no alignment check.  A size that is not a multiple
\* of the alignment and fits the buffer is served on the fast path: Ok(init),
\* no engine call, the cursor advanced by exactly that size.
C1_NoAlignmentCheck ==
  (last.op = "reserve" /\ last.size % align # 0 /\ HadRoom)
    => /\ last.ok
       /\ last.addr = last.preInit
       /\ ~last.engine
       /\ last.postAlloc = last.preAlloc + last.size

C1_Witness ==
  last.op = "reserve" /\ last.size % align # 0 /\ last.ok /\ last.postAlloc % align # 0

\* C2: while every reserve on an allocation point had a size that is a positive
\* multiple of the alignment and the client kept to reserve/commit pairs, every
\* address a successful reserve returns is a multiple of the alignment.
C2_ReserveAligned ==
  (last.op = "reserve" /\ last.ok /\ allAligned[last.t] /\ disciplined[last.t])
    => last.addr % align = 0

\* A fast-path reserve that followed two earlier blocks in the same buffer.
C2_Witness ==
  /\ last.op = "reserve" /\ last.ok /\ ~last.engine
  /\ allAligned[last.t] /\ disciplined[last.t]
  /\ last.addr >= base[last.t] + 2 * align

\* C3 as stated: an allocation point never has two live reservations.
C3_AtMostOneLive == \A t \in APs : Len(live[t]) <= 1

\* C3 amended: the wrapper does not refuse a second reserve.  The allocation
\* point holds one reserved range [init, alloc): every block handed out since
\* the last commit starts at init, so the blocks overlap, and the range is as
\* long as their sizes together.
C3_OneReservedRange ==
  \A t \in APs :
    (pc[t] = "idle" /\ live[t] # <<>>)
      => /\ \A i \in 1..Len(live[t]) : live[t][i].addr = init[t]
         /\ alloc[t] = init[t] + SumSizes(live[t])

C3_Witness ==
  \E t \in APs : Len(live[t]) = 2 /\ live[t][1].addr = live[t][2].addr /\ aborted = "no"

\* C4 as stated: a commit that does not match the outstanding reservation (none
\* outstanding, or another address or size) never returns true.
C4_CommitOnlyMatching == (last.op = "commit" /\ ~last.match) => ~last.ok

\* C4 amended: commit does not look at its arguments on the fast path.  Every
\* commit made while the allocation point is not trapped returns true without
\* an engine call, whatever address and size it was given; the arguments only
\* ever reach the engine's trip, and only when the allocation point is trapped.
C4_FastCommitIgnoresArgs ==
  /\ (last.op = "commit" /\ last.preLimit # NULL) => (last.ok /\ ~last.engine)
  /\ (last.op = "commit" /\ last.engine) => last.preLimit = NULL
  /\ aborted = "trip" => limit[Mutator] = NULL

C4_Witness == last.op = "commit" /\ ~last.match /\ last.ok /\ last.nlive = 0

\* C5: a commit with no flip since its reserve returns true, and the block then
\* holds, at the address reserve returned, the value the client wrote.
C5_NoFlipCommitTrue ==
  /\ (last.op = "commit" /\ last.match /\ ~last.limbo)
       => (last.ok /\ last.val # Uninit /\ mem[last.p] = last.val)
  /\ aborted = "no"

C5_Witness == last.op = "commit" /\ last.match /\ ~last.limbo /\ last.ok /\ mem[last.p] = FirstVal

\* C6: commit returns false only when a flip came after the matching reserve
\* and before the commit.
C6_FalseOnlyAfterFlip == (last.op = "commit" /\ ~last.ok) => last.limbo

C6_Witness == last.op = "commit" /\ ~last.ok /\ last.limbo

\* C7: Idle -reserve-> Reserved -commit-> Idle.  After a commit, true or false,
\* nothing is reserved (init = alloc, no block held) and the next reserve can
\* be made; a block whose commit returned false is not collector-visible.
\* After a successful reserve exactly the reserved block is outstanding.
C7_StateMachine ==
  /\ last.op = "commit"
       => /\ init[last.t] = alloc[last.t]
          /\ live[last.t] = <<>>
          /\ pc[last.t] = "idle"
          /\ ENABLED ClientReserve
          /\ ~last.ok => Block(last.p, last.size) \cap Visible = {}
  /\ (last.op = "reserve" /\ last.ok /\ pc[last.t] = "idle")
       => /\ live[last.t] = <<[addr |-> last.addr, size |-> last.size]>>
          /\ init[last.t] = last.addr
          /\ alloc[last.t] = last.addr + last.size

C7_Witness == last.op = "commit" /\ ~last.ok /\ init[last.t] = last.p

\* C8: unless reserve fails or flips keep landing between a reserve and its
\* commit for ever, the client loop ends with a commit that returned true, and
\* the committed object then holds the value the last attempt wrote.
C8_LoopTerminates ==
  \/ []<><<LimboFlip>>_vars
  \/ <>LoopPanicked
  \/ <>(LoopDone /\ last.op = "commit" /\ last.ok /\ mem[last.p] = last.val)

\* The loop ended after an attempt whose commit had returned false.
C8_Witness ==
  /\ LoopDone /\ last.op = "commit" /\ last.ok
  /\ \E a \in committed[Mutator] : mem[a] # FirstVal /\ mem[a] # Uninit

\* The error the taxonomy assigns to each code the engine's fill fails with.
FillTaxonomy == (MPS_RES_MEMORY :> "Memory") @@ (-1 :> "Unknown")

\* C9: a reserve the buffer has room for returns Ok without calling the engine;
\* a reserve returns an error only when the engine's fill came back with a
\* nonzero code, and the error is the taxonomy's for that code.
C9_FastPathInfallible ==
  last.op = "reserve"
    => /\ HadRoom => (last.ok /\ ~last.engine)
       /\ ~last.ok => (last.engine /\ last.code # 0 /\ last.err = FillTaxonomy[last.code])
       /\ last.ok => last.err = "none"

C9_Witness == last.op = "reserve" /\ ~last.ok /\ last.err = "Memory"

\* C10: with a thread per allocation point, flips at any point and no client
\* lock, every block whose commit returned true lies in memory the engine
\* manages as committed, and blocks committed through different allocation
\* points do not overlap.
C10_CommittedValidDisjoint ==
  /\ \A t \in APs : committed[t] \subseteq Visible
  /\ \A t1 \in APs : \A t2 \in APs \ {t1} : committed[t1] \cap committed[t2] = {}
  /\ aborted = "no"

\* Both threads have committed, one of them through the engine's trip.
C10_Witness ==
  /\ \A t \in APs : committed[t] # {}
  /\ last.op = "commit" /\ last.ok /\ last.engine

\* The block thread t holds: reserved, its commit not yet returned.
HeldBlock(t) == Block(live[t][1].addr, live[t][1].size)

PublishedCodes ==
  {MPS_RES_FAIL, MPS_RES_IO, MPS_RES_LIMIT, MPS_RES_MEMORY, MPS_RES_RESOURCE,
   MPS_RES_UNIMPL, MPS_RES_COMMIT_LIMIT, MPS_RES_PARAM}

\* C12: code 0 yields Ok and no other code does; each published nonzero code
\* yields an error variant other than Unknown whose discriminant is the code
\* (so different codes yield different variants).
C12_MappingOneToOne ==
  last.op \in {"handle", "fill"}
    => /\ last.ok <=> last.code = MPS_RES_OK
       /\ last.code \in PublishedCodes
            => /\ last.err \notin {"none", "panic", "Unknown"}
               /\ Discriminant(last.err) = last.code

C12_Witness == last.op = "handle" /\ last.err = "CommitLimit" /\ last.code = MPS_RES_COMMIT_LIMIT

\* C13: every nonzero code outside the published set, negative ones included,
\* comes back as MpsError::Unknown from handle_mps_res! and from fill, and
\* neither panics.
C13_UnknownNoPanic ==
  /\ (last.op \in {"handle", "fill"} /\ last.code # MPS_RES_OK /\ last.code \notin PublishedCodes)
       => (~last.ok /\ last.err = "Unknown")
  /\ last.err # "panic"

C13_Witness == last.op = "fill" /\ last.code = ResMin /\ last.err = "Unknown"

\* C17: right after forward(old, new), whatever was at old (a live object, a
\* padding marker or a forwarding marker), is_forwarded(old) is new and
\* skip(old) is what it was before the forward.
C17_ForwardRoundTrip ==
  fmtcall.op = "forward"
    => /\ is_forwarded(heap, fmtcall.addr) = fmtcall.arg
       /\ skip(heap, fmtcall.addr) = fmtcall.pre
       /\ size_assertion(heap, fmtcall.addr)

\* A marker larger than a TreeObject was forwarded.
C17_Witness ==
  /\ fmtcall.op = "forward"
  /\ fmtcall.pre > fmtcall.addr + TreeObjectWords
  /\ ObjAt(fmtcall.addr).size = fmtcall.pre - fmtcall.addr

\* C18: right after pad(addr, size), for every size of at least a TreeObject,
\* skip(addr) is addr + size and the marker is not reported as forwarded.
C18_PadRoundTrip ==
  (fmtcall.op = "pad" /\ fmtcall.arg >= TreeObjectWords)
    => /\ skip(heap, fmtcall.addr) = fmtcall.addr + fmtcall.arg
       /\ is_forwarded(heap, fmtcall.addr) = NULL
       /\ size_assertion(heap, fmtcall.addr)

C18_Witness ==
  fmtcall.op = "pad" /\ fmtcall.arg > TreeObjectWords /\ fmtcall.addr > HeapBase

\* The addresses visited by applying skip from a up to end, or {NULL} when a step
\* does not advance or steps over end.
RECURSIVE SkipChain(_, _, _)
SkipChain(h, a, end) ==
  IF a = end THEN {}
  ELSE IF a > end \/ skip(h, a) <= a THEN {NULL}
  ELSE {a} \cup SkipChain(h, skip(h, a), end)

\* C19: in every state of the heap, applying skip from its base visits
\* strictly increasing addresses, exactly the starts of the objects laid out,
\* and lands on the end of the formatted part: the limit, once the heap is full.
C19_SkipWalkLands == SkipChain(heap, HeapBase, top) = Starts

\* A full heap that holds a forwarded marker larger than a TreeObject.
C19_Witness ==
  /\ top = HeapLimit
  /\ \E o \in objs : o.kind = "fwd" /\ o.size > TreeObjectWords
  /\ \E o \in objs : o.kind = "tree"

\* C20: is_forwarded(old) returns the target of the forwarding marker at old,
\* and null for a live object and for a padding marker; the call leaves the
\* heap as it was.
C20_IsForwardedExact ==
  /\ [](\A o \in objs :
         is_forwarded(heap, o.addr) = IF o.kind = "fwd" THEN o.new ELSE NULL)
  /\ [](fmtcall.op = "is_forwarded" =>
         fmtcall.ret = IF ObjAt(fmtcall.addr).kind = "fwd"
                       THEN ObjAt(fmtcall.addr).new ELSE NULL)
  /\ [][fmtcall'.op = "is_forwarded" => heap' = heap]_vars

\* is_forwarded answered null for a padding marker.
C20_Witness ==
  /\ fmtcall.op = "is_forwarded" /\ fmtcall.ret = NULL
  /\ ObjAt(fmtcall.addr).kind = "pad"
  /\ \E o \in objs : o.kind = "fwd"

\* The zone bits of the addresses should_fix was handed in this scan call.
ShouldBits == {ZoneBit(a, sfs.zs) : a \in slog.should}

\* C14: in a scan call, a fix that reached the engine is Err(c) exactly when
\* the engine returned the nonzero code c, and Ok when it returned 0; a failed
\* fix is the last fix of the call, and the call has then returned c, the
\* engine's code, to the engine; a call returns a failure only that way.
C14_FixFailureStopsScan ==
  /\ \A i \in 1..Len(slog.calls) :
       LET c == slog.calls[i] IN
       /\ c.engine => /\ c.ok <=> c.res = 0
                      /\ ~c.ok => c.err = c.res
       /\ ~c.engine => c.ok
       /\ ~c.ok => /\ i = Len(slog.calls)
                   /\ sfs.pc = "ret"
                   /\ sfs.ret = c.res
  /\ (sfs.pc = "ret" /\ sfs.ret # MPS_RES_OK) =>
       /\ slog.calls # <<>>
       /\ ~slog.calls[Len(slog.calls)].ok

\* A scan call that fixed one reference and failed on the next, with objects
\* still unscanned.
C14_Witness ==
  /\ sfs.pc = "ret" /\ sfs.ret = -1
  /\ Len(slog.calls) >= 2
  /\ slog.calls[1].engine /\ slog.calls[1].ok
  /\ add_one(sfs.base) < sfs.limit

\* C15 as stated: once the scan call has returned, the tally in the engine's
\* scan state holds the bit of every address should_fix was handed.
C15_TallyAfterScan ==
  sfs.pc = "ret" => ShouldBits \subseteq ss.ufs

\* C15: during a scan call the tally of the ScanFixState is the tally on entry
\* plus the bit of every address should_fix was handed, whatever it answered;
\* the engine's scan state holds that tally after a call that returned
\* MPS_RES_OK, and the tally on entry after a call that returned a failure.
C15_TallyWrittenOnSuccess ==
  /\ sfs.pc # "idle" => sfs.ufs = slog.entry \cup ShouldBits
  /\ (sfs.pc = "ret" /\ sfs.ret = MPS_RES_OK) => ss.ufs = slog.entry \cup ShouldBits
  /\ (sfs.pc = "ret" /\ sfs.ret # MPS_RES_OK) => ss.ufs = slog.entry
  /\ sfs.pc \in {"loop", "right"} => ss.ufs = slog.entry

\* A scan call that returned MPS_RES_OK after should_fix answered false and
\* added a bit the tally did not have on entry.
C15_Witness ==
  /\ sfs.pc = "ret" /\ sfs.ret = MPS_RES_OK
  /\ \E i \in 1..Len(slog.calls) :
       /\ ~slog.calls[i].engine
       /\ ZoneBit(slog.calls[i].slot, sfs.zs) \notin slog.entry
  /\ ss.ufs # slog.entry

\* C16: every fix of a scan call reached the engine exactly when the filter
\* holds for the reference, the value in the slot; a fix of an uninteresting
\* reference is Ok and leaves the value as it was.
C16_FixCallsEngineIffInteresting ==
  \A i \in 1..Len(slog.calls) :
    LET c == slog.calls[i] IN
    /\ c.engine <=> ZoneBit(c.ref, sfs.zs) \in sfs.w
    /\ ZoneBit(c.ref, sfs.zs) \notin sfs.w => c.ok /\ c.out = c.ref

\* C21 as stated: in a scan call no fix is applied to the target pointer held
\* in a forwarding marker, and every forwarding marker of the extent still
\* holds the target it was written with.
C21_ScanLeavesMarkers ==
  /\ \A i \in 1..Len(slog.calls) :
       \A o \in objs : o.kind = "fwd" => slog.calls[i].slot # o.addr + 1
  /\ \A o \in objs : o.kind = "fwd" => heap[o.addr + 1] = o.new

\* C28: every should_fix of a scan call answered true exactly when bit
\* ((addr >> zs) mod word bits) of the address it was handed is in the summary
\* w that fix_with captured on entry; zs and w stay as captured, and a step of
\* the scan only adds to the tally, at most the bit of the address handed over.
C28_ShouldFixBit ==
  /\ [](\A i \in 1..Len(slog.calls) :
          slog.calls[i].engine <=>
            ((slog.calls[i].slot \div (2^(ss.zs))) % ZoneBits) \in ss.w)
  /\ [](sfs.pc # "idle" => sfs.zs = ss.zs /\ sfs.w = ss.w)
  /\ [][sfs.pc \in {"loop", "right"} =>
          /\ sfs.ufs \subseteq sfs'.ufs
          /\ sfs'.ufs \ sfs.ufs \subseteq
               {(c.slot \div (2^(ss.zs))) % ZoneBits :
                  c \in {slog'.calls[i] : i \in (Len(slog.calls) + 1)..Len(slog'.calls)}}
          /\ Len(slog'.calls) <= Len(slog.calls) + 1]_vars

\* A scan call with a nonzero zone shift in which should_fix answered true for
\* one address and false for another, the tally having gained a bit.
C28_Witness ==
  /\ ss.zs = 2 /\ ss.w # NoBits
  /\ \E i, j \in 1..Len(slog.calls) : slog.calls[i].engine /\ ~slog.calls[j].engine
  /\ sfs.ufs # slog.entry

\* Where an engine call stands in the order of the engine's calls.
Pos(ev) == {i \in 1..Len(elog) : elog[i] = ev}

\* C22: for a pool of either class that has been dropped, the engine saw one
\* mps_pool_destroy of the pool and one mps_fmt_destroy of its format, the
\* pool's first; and no format is ever destroyed at a point where its pool
\* has been created and not yet destroyed.
C22_PoolThenFormat ==
  \A p \in FmtIds :
    /\ Cardinality(Pos(Event("pool_destroy", p))) <= 1
    /\ Cardinality(Pos(Event("fmt_destroy", p))) <= 1
    /\ pools[p].rust = "dropped" =>
         /\ Cardinality(Pos(Event("pool_destroy", p))) = 1
         /\ Cardinality(Pos(Event("fmt_destroy", p))) = 1
    /\ \A i \in Pos(Event("fmt_destroy", p)) :
         (\E c \in Pos(Event("pool_create", p)) : c < i) =>
           \E d \in Pos(Event("pool_destroy", p)) : d < i

\* A mark-sweep pool and a mostly-copying pool have both been dropped.
C22_Witness ==
  \E p, q \in FmtIds :
    /\ pools[p].class = "ams" /\ pools[p].rust = "dropped"
    /\ pools[q].class = "amc" /\ pools[q].rust = "dropped"

\* The engine call that destroys what the call at position i created.
Undo(i) ==
  Event(IF elog[i].op = "fmt_create" THEN "fmt_destroy" ELSE "pool_destroy", elog[i].id)
Creations == {i \in 1..Len(elog) : elog[i].op \in {"fmt_create", "pool_create"}}

\* C23 as stated: once the arena is destroyed, every format and pool created
\* in it has been destroyed, and the destructions came in the reverse of the
\* order of the creations.
C23_ArenaDestroyedLast ==
  arena = "destroyed" =>
    /\ \A i \in Creations : Pos(Undo(i)) # {}
    /\ \A i, j \in Creations :
         i < j => \A di \in Pos(Undo(i)), dj \in Pos(Undo(j)) : dj < di

C24_FullBlocksBeginDoesNot ==
  /\ []((colcall.op = "full_collection" /\ colcall.pc = "idle") =>
          /\ colcall.started > colcall.entry
          /\ cycles >= colcall.started
          /\ colcall.ok /\ colcall.err = "none")
  /\ [](colcall.op = "begin_collection" =>
          /\ colcall.pc = "idle"
          /\ colcall.ok <=> colcall.code = MPS_RES_OK
          /\ ~colcall.ok => colcall.err = from_code(colcall.code))
  /\ [][(colcall'.op = "begin_collection" /\ colcall' # colcall) =>
          /\ cycles' = cycles
          /\ colcall'.ok => trace' = "running"
          /\ ~colcall'.ok => trace' = trace]_vars

\* A full_collection has returned that was called after earlier cycles, the
\* cycle started during the call being the last one completed.
C24_Witness ==
  /\ colcall.op = "full_collection" /\ colcall.pc = "idle"
  /\ colcall.entry >= 1
  /\ cycles = colcall.started /\ trace = "none"

\* C27: when bottom_up_tree(depth) has returned, item_check of the tree is
\* 2^(depth+1) - 1, it visits that many different addresses, and every node
\* it visits that has children has two, each the root of a tree of its own.
C27_CompleteTree ==
  (bt.returned /\ bt.stack = <<>>) =>
    /\ item_check(kids, bt.ret) = 2^(bt.depth + 1) - 1
    /\ Cardinality(Nodes(kids, bt.ret)) = 2^(bt.depth + 1) - 1
    /\ \A n \in Nodes(kids, bt.ret) :
         kids[n] # NoKids =>
           /\ kids[n][1] # NULL /\ kids[n][2] # NULL
           /\ Nodes(kids, kids[n][1]) \cap Nodes(kids, kids[n][2]) = {}

\* A tree of the largest depth has been built, blocks having been passed over.
C27_Witness ==
  /\ bt.returned /\ bt.stack = <<>>
  /\ bt.depth = MaxDepth /\ bt.gaps > 0

\* C29 as stated: the addresses a scan call takes for the start of an object
\* are starts of objects of the extent, the ones skip leads to; none lies
\* inside a padding or forwarding marker.
C29_ScanWalksBySkip ==
  /\ slog.starts \subseteq Starts
  /\ (sfs.pc = "ret" /\ sfs.ret = MPS_RES_OK) => sfs.base = sfs.limit

\* The fix calls of the scan call after which the engine had moved the
\* object referred to.
Relocations ==
  {i \in 1..Len(slog.calls) :
     slog.calls[i].engine /\ slog.calls[i].ok /\ slog.calls[i].out # slog.calls[i].ref}

\* C30 as stated: after a scan call that returned MPS_RES_OK, each field a
\* reference was read from for a fix holds what that fix produced, and no
\* field of a scanned tree holds the old address of an object the engine
\* moved in a fix of that call.
C30_FixedRefsStoredBack ==
  (sfs.pc = "ret" /\ sfs.ret = MPS_RES_OK) =>
    /\ \A i \in 1..Len(slog.calls) : heap[slog.calls[i].at] = slog.calls[i].out
    /\ \A o \in objs :
         (o.kind = "tree" /\ o.addr \in slog.starts /\ heap[o.addr + 1] # NULL) =>
           \A i \in Relocations :
             slog.calls[i].ref \notin {heap[o.addr + 1], heap[o.addr + 2]}

\* The tree at a in memory h, as a shape: a leaf, a pair of shapes, or
\* "broken" where a reference does not lead to a tree object.
RECURSIVE Shape(_, _, _)
Shape(h, a, fuel) ==
  IF fuel = 0 \/ a \notin DOMAIN h THEN <<"broken">>
  ELSE IF Tag(h, a) # TagTree THEN <<"broken">>
  ELSE IF h[a + 1] = NULL THEN <<"leaf">>
  ELSE <<"node", Shape(h, h[a + 1], fuel - 1), Shape(h, h[a + 2], fuel - 1)>>

\* C26 as stated: once a moving collection is over, the tree reachable from
\* the retained root has the shape it had before the collection, and no
\* reference in it leads to a forwarding or padding marker.
C26_GraphPreserved ==
  gc.phase = "done" =>
    Shape(heap, gc.root, NumTreeObjects) = Shape(gc.pre, gc.root, NumTreeObjects)

\* C31: when a scan that delegated to a sub-scan through call_scan has
\* returned MPS_RES_OK, the tally in the engine's scan state is the tally on
\* entry together with the bits recorded by the outer scan before the call, by
\* the sub-scan, and by the outer scan after the call; when the sub-scan
\* failed, call_scan returned the sub-scan's code.
C31_CallScanMergesTally ==
  /\ (nest.pc = "ret" /\ nest.called /\ nest.ret = MPS_RES_OK) =>
       nest.raw.ufs = nest.entry \cup nest.before \cup nest.inner \cup nest.after
  /\ (nest.called /\ nest.pc \in {"after", "ret"}) =>
       /\ nest.subret # MPS_RES_OK => nest.callret = nest.subret
       /\ nest.subret = MPS_RES_OK => nest.callret = MPS_RES_OK

\* A delegating scan that returned MPS_RES_OK; the outer scan before the
\* call, the sub-scan, and the outer scan after the call each recorded a bit
\* the others did not, none of them in the tally on entry.
C31_Witness ==
  /\ nest.pc = "ret" /\ nest.called /\ nest.ret = MPS_RES_OK
  /\ nest.before \ (nest.entry \cup nest.inner \cup nest.after) # {}
  /\ nest.inner \ (nest.entry \cup nest.before \cup nest.after) # {}
  /\ nest.after \ (nest.entry \cup nest.before \cup nest.inner) # {}

\* C35: the step on which the closure given to fix_with returns Err(code),
\* the code of the fix that failed, makes fix_with return that code and
\* leaves the engine's scan state, its tally _ufs included, as it was; the
\* step on which the closure returns Ok writes the tally of the ScanFixState
\* to _ufs, and no other step of the scan method writes the scan state.
C35_ErrLeavesTally ==
  [][/\ (sfs.pc \in {"loop", "right"} /\ sfs'.pc = "ret" /\ sfs'.ret # MPS_RES_OK) =>
          /\ ss' = ss
          /\ slog'.calls # <<>>
          /\ ~slog'.calls[Len(slog'.calls)].ok
          /\ sfs'.ret = slog'.calls[Len(slog'.calls)].err
     /\ (sfs.pc \in {"loop", "right"} /\ sfs'.pc = "ret" /\ sfs'.ret = MPS_RES_OK) =>
          ss' = [ss EXCEPT !.ufs = sfs.ufs]
     /\ (sfs.pc \in {"loop", "right"} /\ ss' # ss) =>
          (sfs'.pc = "ret" /\ sfs'.ret = MPS_RES_OK)]_vars

\* A scan call that returned a failure code after its fixes had gathered bits
\* the tally did not have on entry: the engine's tally is still the one on
\* entry.
C35_Witness ==
  /\ sfs.pc = "ret" /\ sfs.ret # MPS_RES_OK
  /\ sfs.ufs # slog.entry
  /\ ss.ufs = slog.entry

\* C32: commit is the store init := alloc and then the read of limit, and a
\* flip can come before, between or after them.  A flip that lands between
\* the two steps traps the allocation point, which stays trapped until the
\* commit returns; a commit returns through the engine's trip exactly when
\* the allocation point was flipped by the time of its second step; it
\* returns true exactly when no flip came between the reserve and the first
\* step; and a block whose commit returns true is one the engine holds
\* committed, below init and not undone by a flip.
C32_CommitTwoSteps ==
  [][\A t \in APs :
       /\ (pc[t] = "commit" /\ ~flipped[t] /\ flipped'[t]) =>
            (limit'[t] = NULL /\ initAtFlip'[t] = init[t])
       /\ (pc[t] = "commit" /\ pc'[t] = "commit" /\ flipped[t]) =>
            (flipped'[t] /\ limit'[t] = NULL)
       /\ (pc[t] = "commit" /\ pc'[t] = "idle") =>
            /\ last'.op = "commit" /\ last'.t = t
            /\ last'.engine <=> flipped[t]
            /\ last'.ok <=> ~flipInLimbo[t]
            /\ last'.ok => /\ HeldBlock(t) \subseteq Visible'
                           /\ init'[t] = live[t][1].addr + live[t][1].size
                           /\ (flipped'[t] => initAtFlip'[t] = init'[t])
            /\ ~last'.ok => HeldBlock(t) \cap Visible' = {}]_vars

\* A commit returned true through the engine's trip: the flip landed after
\* the store of init and before the read of limit.
C32_Witness ==
  /\ last.op = "commit" /\ last.ok /\ last.engine /\ ~last.limbo
  /\ flipped[last.t] /\ initAtFlip[last.t] = init[last.t]
  /\ init[last.t] = last.p + last.size

\* C33 as stated: a format handed to a pool builder is destroyed in the
\* engine at most once, it has been destroyed when build has returned an
\* error and when its pool has been dropped, and it is never left without an
\* owner that will destroy it.
C33_FormatDestroyedOnce ==
  /\ \A f \in FmtIds :
       /\ Cardinality(Pos(Event("fmt_destroy", f))) <= 1
       /\ pools[f].rust = "dropped" => Cardinality(Pos(Event("fmt_destroy", f))) = 1
       /\ fmts[f].rust # "leaked"
  /\ (lcall.op = "build" /\ ~lcall.ok) =>
       Cardinality(Pos(Event("fmt_destroy", lcall.id))) = 1

\* C34 as stated: an allocation point created from a pool is no longer live
\* in the engine once the engine has destroyed the pool, and a reserve or a
\* commit is issued on an allocation point only while its pool is live.
C34_ApsDestroyedBeforePool ==
  /\ \A p \in FmtIds :
       Pos(Event("pool_destroy", p)) # {} => aps[p].eng # "live"
  /\ lcall.op \in {"reserve", "commit"} => pools[lcall.id].eng = "live"

\* C36: a reserve that returns took the fast path, with no engine call,
\* exactly when alloc + size modulo the word is above alloc and at most limit;
\* a size of 0 and a size whose addition wraps never take it.  The fast path
\* moves alloc up by size, leaves init, limit and the engine's books as they
\* were and returns init.  A reserve the engine stops on a failed check of
\* its arguments has been handed to the engine with the cursor as it was.
C36_ReserveFastPath ==
  [][/\ (last'.op = "reserve" /\ last' # last) =>
          LET t == last'.t
              size == last'.size
              sum == alloc[t] + size
              fits == (sum % WordMod) > alloc[t] /\ (sum % WordMod) <= limit[t] IN
          /\ last'.engine <=> ~fits
          /\ (size = 0 \/ sum >= WordMod) => last'.engine
          /\ ~last'.engine =>
               /\ alloc' = [alloc EXCEPT ![t] = alloc[t] + size]
               /\ init' = init /\ limit' = limit
               /\ UNCHANGED engF
               /\ last'.ok /\ last'.addr = init[t]
     /\ (aborted = "no" /\ aborted' = "fill") => UNCHANGED apF]_vars

\* A fast-path reserve on top of a reservation: it returned init, which the
\* cursor had already left.
C36_Witness ==
  /\ last.op = "reserve" /\ ~last.engine /\ last.ok
  /\ last.addr = last.preInit /\ last.preInit # last.preAlloc
  /\ last.postAlloc = last.preAlloc + last.size

\* C37: for a client that keeps to reserve/commit pairs, the blocks
\* committed out of the buffer attached to an allocation point fill it from
\* its base up to init with no gap; a reserve served from that same buffer
\* returns a block that starts where the block committed just before it
\* ended, overlaps no committed block and ends at or before the limit.
C37_BlocksContiguous ==
  /\ [](\A t \in APs :
          (Attached(t) /\ pc[t] = "idle" /\ live[t] = <<>>) =>
             committed[t] \cap (base[t]..(poolLimit[t] - 1)) = base[t]..(init[t] - 1))
  /\ [][(last'.op = "reserve" /\ last' # last /\ last'.ok
           /\ base'[last'.t] = base[last'.t]) =>
          LET t == last'.t IN
          /\ (last.op = "commit" /\ last.t = t /\ last.ok) =>
               last'.addr = last.p + last.size
          /\ Block(last'.addr, last'.size) \cap committed[t] = {}
          /\ last'.addr = init[t]
          /\ last'.addr + last'.size <= limit'[t]
          /\ limit'[t] = poolLimit[t]]_vars

\* The fast path has reserved a block that ends at the limit, behind three
\* or more committed blocks of the same buffer.
C37_Witness ==
  /\ last.op = "reserve" /\ ~last.engine /\ last.ok
  /\ last.addr + last.size = limit[last.t]
  /\ last.addr >= base[last.t] + 3 * align
  /\ base[last.t]..(last.addr - 1) \subseteq committed[last.t]

\* C38: a flip nulls the limit of an attached allocation point, and the
\* limit stays null until a reserve has gone through the engine's fill.
\* While it is null, a reserve that returns has called fill, a commit that
\* returns has called trip, also when the flip came after its first step, and
\* a commit begun with the limit null finds it null at its second step.
C38_TrappedGoesToEngine ==
  [][\A t \in APs :
       /\ (Attached(t) /\ ~flipped[t] /\ flipped'[t]) => limit'[t] = NULL
       /\ (limit[t] = NULL /\ limit'[t] # NULL) =>
            (last' # last /\ last'.op = "reserve" /\ last'.t = t /\ last'.engine)
       /\ (limit[t] = NULL /\ last' # last /\ last'.op = "reserve" /\ last'.t = t) =>
            last'.engine
       /\ (pc[t] = "commit" /\ carg[t].preLimit = NULL) => limit[t] = NULL
       /\ (limit[t] = NULL /\ pc[t] = "commit" /\ pc'[t] = "idle") =>
            (last'.op = "commit" /\ last'.t = t /\ last'.engine)]_vars

\* A reserve on a trapped allocation point that the engine's fill served out
\* of the buffer still attached, behind blocks already committed.
C38_Witness ==
  /\ last.op = "reserve" /\ last.engine /\ last.ok
  /\ last.preLimit = NULL /\ last.preInit # NULL
  /\ last.addr = last.preInit
  /\ limit[last.t] # NULL
  /\ committed[last.t] # {}

\* C39: handle_mps_res! and AllocationPoint::fill hand from_code only codes
\* whose conversion to u32 is not the success code, so its assertion holds
\* on every call: a call that came back with an error was given such a code
\* and carries a variant of MpsError, and a call given a code that converts
\* to the success code came back Ok without reaching from_code.
C39_FromCodeNeverZero ==
  last.op \in {"handle", "fill"} =>
    /\ ~last.ok =>
         /\ last.code % (2^ResBits) # MPS_RES_OK
         /\ last.err \in {"Fail", "Io", "Limit", "Memory", "Resource", "Unimplemented",
                          "CommitLimit", "InvalidParam", "Unknown"}
    /\ last.code % (2^ResBits) = MPS_RES_OK => (last.ok /\ last.err = "none")

\* handle_mps_res! was given the most negative code: from_code was reached
\* with a nonzero u32 and its assertion held.
C39_Witness ==
  last.op = "handle" /\ ~last.ok /\ last.code = ResMin /\ last.err = "Unknown"

====
